---- MODULE Spec2Model ----
(***************************************************************************)
(* GitReviewed: the webhook-to-notification pipeline.                      *)
(*                                                                         *)
(*   git.GitHubClient.VerifyWebhook      src/internal/git/github.go        *)
(*   handlers.WebhookHandler             src/unnamed/part_002 (1-235)      *)
(*   ai.Client.ReviewCodeByFile          src/unnamed/part_002 (236-390)    *)
(*   scanner.Scanner, patterns           src/unnamed/part_001              *)
(*                                                                         *)
(* Strings are sequences of one-character strings, byte slices are         *)
(* sequences of numbers 0..255.  Calls that leave the process (GitHub,     *)
(* Slack, Gemini) return success or an error, chosen by the environment.   *)
(***************************************************************************)
EXTENDS Integers, Sequences, FiniteSets, TLC

VARIABLES
    vin,        \* the arguments of the function under test (VerifyWebhook, ScanFiles)
    vout,       \* whether it was called, and what it returned
    deliveries, \* the HTTP requests received so far, with their responses
    runs,       \* one processPullRequest goroutine per delivery
    aiClient,   \* WebhookHandler.aiClient: what ai.NewClient returned
    panicked    \* a goroutine panicked: the Go runtime has ended the process

vars == <<vin, vout, deliveries, runs, aiClient, panicked>>

----------------------------------------------------------------------------
(* Bounds of the model *)

\* bytes of a digest (sha256.Size is 32; the model keeps the shape, not the width)
DigestLen == 2
\* webhook deliveries the process receives
MaxDeliveries == 1

----------------------------------------------------------------------------
(* Strings and bytes *)

SignaturePrefix == <<"s", "h", "a", "2", "5", "6", "=">>

HexDigits == <<"0", "1", "2", "3", "4", "5", "6", "7",
               "8", "9", "a", "b", "c", "d", "e", "f">>

UpperHexDigits == <<"0", "1", "2", "3", "4", "5", "6", "7",
                    "8", "9", "A", "B", "C", "D", "E", "F">>

\* strings.HasPrefix
HasPrefix(s, prefix) ==
    /\ Len(s) >= Len(prefix)
    /\ SubSeq(s, 1, Len(prefix)) = prefix

\* strings.TrimPrefix: s without the prefix, s itself when it has none
TrimPrefix(s, prefix) ==
    IF HasPrefix(s, prefix) THEN SubSeq(s, Len(prefix) + 1, Len(s)) ELSE s

\* hex.EncodeToString: two lower-case digits per byte, high nibble first
RECURSIVE HexEncodeToString(_)
HexEncodeToString(bytes) ==
    IF bytes = <<>> THEN <<>>
    ELSE <<HexDigits[(Head(bytes) \div 16) + 1], HexDigits[(Head(bytes) % 16) + 1]>>
         \o HexEncodeToString(Tail(bytes))

\* the keyed state after absorbing the bytes of s, one byte at a time
RECURSIVE Absorb(_, _)
Absorb(acc, s) ==
    IF s = <<>> THEN acc
    ELSE Absorb((acc * 31 + Head(s) + 7) % 256, Tail(s))

\* hmac.New(sha256.New, key); mac.Write(payload); mac.Sum(nil): a keyed digest
\* of DigestLen bytes that depends on every byte of the key and of the payload
\* and on their order
HMAC(key, payload) ==
    LET h == Absorb(Absorb(Len(key) + 1, key), <<Len(payload)>> \o payload)
    IN  [k \in 1..DigestLen |-> (h * (2 * k + 1) + 89 * (k - 1)) % 256]

\* hmac.Equal: equal lengths and equal bytes
HmacEqual(a, b) ==
    /\ Len(a) = Len(b)
    /\ \A i \in 1..Len(a) : a[i] = b[i]

\* VerifyWebhook without the HasPrefix guard: TrimPrefix alone lets a header
\* that is only the digest through
VerifyWebhookNoPrefixCheck(webhookSecret, payload, signature) ==
    HmacEqual(TrimPrefix(signature, SignaturePrefix),
              HexEncodeToString(HMAC(webhookSecret, payload)))

\* GitHubClient.VerifyWebhook
VerifyWebhook(webhookSecret, payload, signature) ==
    IF ~HasPrefix(signature, SignaturePrefix) THEN FALSE
    ELSE LET sig == TrimPrefix(signature, SignaturePrefix)
             expectedMAC == HMAC(webhookSecret, payload)
             expectedSignature == HexEncodeToString(expectedMAC)
         IN  HmacEqual(sig, expectedSignature)

----------------------------------------------------------------------------
(* Text of a patch.  A text is a sequence of fragments; the fragment "\n"   *)
(* is the line terminator, every other fragment stands for a run of         *)
(* characters without a line terminator, described by the tables below.     *)

NL == "\n"

\* number of bytes of a fragment
FragLen(f) ==
    CASE f \in {"+", "-", " ", NL} -> 1
      [] f = "code"       -> 8
      [] f = "AKIA"       -> 20    \* AKIA1234567890ABCDEF
      [] f = "aws_secret" -> 56    \* aws_secret = "<40 characters>"
      [] f = "ghp"        -> 40    \* ghp_<36 characters>
      [] f = "slack_hook" -> 77    \* https://hooks.slack.com/services/T../B../..
      [] f = "api_key"    -> 32    \* api_key = "<20 characters>"
      [] f = "password"   -> 21    \* password = "hunter2hunter2"
      [] f = "sk_test"    -> 32    \* sk_test_<24 characters>
      [] f = "dummy_key"  -> 32    \* api_key = "dummyvalue1234567890"
      [] f = "TODO"       -> 4
      [] f = "Example"    -> 7
      [] f = "latest"     -> 6
      [] f = "your__key__here" -> 15
      [] f = "Replace_With"    -> 12
      [] f = "YOUR-KEY-HERE"   -> 13
      [] f = "severity9"  -> 9     \* text only a custom pattern matches
      [] f = "long64k"    -> 65536 \* 64 KiB of letters without a line terminator
      [] OTHER            -> 1

\* names of the catalog patterns whose regular expression matches inside f
FragMatches(f) ==
    CASE f = "AKIA"       -> {"AWS Access Key ID"}
      [] f = "aws_secret" -> {"AWS Secret Access Key", "Generic Secret"}
      [] f = "ghp"        -> {"GitHub Personal Access Token"}
      [] f = "slack_hook" -> {"Slack Webhook"}
      [] f = "api_key"    -> {"Generic API Key"}
      [] f = "password"   -> {"Generic Secret"}
      [] f = "sk_test"    -> {"Stripe API Key"}
      [] f = "dummy_key"  -> {"Generic API Key"}
      [] f = "severity9"  -> {"Custom"}
      [] OTHER            -> {}

\* the characters of f; a run of key material is written as one "#"
FragChars(f) ==
    CASE f = "+" -> <<"+">>
      [] f = "-" -> <<"-">>
      [] f = " " -> <<" ">>
      [] f = "code" -> <<"x", " ", ":", "=", " ", "f", "(", ")">>
      [] f = "AKIA" -> <<"A", "K", "I", "A", "#">>
      [] f = "aws_secret" -> <<"a", "w", "s", "_", "s", "e", "c", "r", "e", "t", " ", "=", " ", "\"", "#", "\"">>
      [] f = "ghp" -> <<"g", "h", "p", "_", "#">>
      [] f = "slack_hook" -> <<"h", "t", "t", "p", "s", ":", "/", "/", "h", "o", "o", "k", "s", ".", "s", "l", "a", "c", "k", ".", "c", "o", "m", "/", "s", "e", "r", "v", "i", "c", "e", "s", "/", "#">>
      [] f = "api_key" -> <<"a", "p", "i", "_", "k", "e", "y", " ", "=", " ", "\"", "#", "\"">>
      [] f = "password" -> <<"p", "a", "s", "s", "w", "o", "r", "d", " ", "=", " ", "\"", "#", "\"">>
      [] f = "sk_test" -> <<"s", "k", "_", "t", "e", "s", "t", "_", "#">>
      [] f = "dummy_key" -> <<"a", "p", "i", "_", "k", "e", "y", " ", "=", " ", "\"", "d", "u", "m", "m", "y", "#", "\"">>
      [] f = "TODO" -> <<"T", "O", "D", "O">>
      [] f = "Example" -> <<"E", "x", "a", "m", "p", "l", "e">>
      [] f = "latest" -> <<"l", "a", "t", "e", "s", "t">>
      [] f = "your__key__here" -> <<"y", "o", "u", "r", "_", "_", "k", "e", "y", "_", "_", "h", "e", "r", "e">>
      [] f = "Replace_With" -> <<"R", "e", "p", "l", "a", "c", "e", "_", "W", "i", "t", "h">>
      [] f = "YOUR-KEY-HERE" -> <<"Y", "O", "U", "R", "-", "K", "E", "Y", "-", "H", "E", "R", "E">>
      [] f = "severity9" -> <<"s", "e", "v", "e", "r", "i", "t", "y", "9">>
      [] OTHER -> <<"#">>

\* the characters of a line
RECURSIVE LineChars(_)
LineChars(line) ==
    IF line = <<>> THEN <<>> ELSE FragChars(Head(line)) \o LineChars(Tail(line))

\* the first character of f is "-"
FragStartsWithDash(f) == FragChars(f)[1] = "-"

\* len(text): the bytes of its fragments, summed half by half
RECURSIVE TextLen(_)
TextLen(text) ==
    IF text = <<>> THEN 0
    ELSE IF Len(text) = 1 THEN FragLen(text[1])
    ELSE LET h == Len(text) \div 2
         IN  TextLen(SubSeq(text, 1, h)) + TextLen(SubSeq(text, h + 1, Len(text)))

\* the fragments of text before its first line terminator
RECURSIVE FirstLine(_)
FirstLine(text) ==
    IF text = <<>> \/ Head(text) = NL THEN <<>>
    ELSE <<Head(text)>> \o FirstLine(Tail(text))

\* text after its first line terminator (empty when it has none)
RECURSIVE AfterFirstLine(_)
AfterFirstLine(text) ==
    IF text = <<>> THEN <<>>
    ELSE IF Head(text) = NL THEN Tail(text)
    ELSE AfterFirstLine(Tail(text))

\* bufio.MaxScanTokenSize, the buffer limit of bufio.NewScanner
MaxScanTokenSize == 65536

\* the lines bufio.Scanner yields with bufio.ScanLines: each terminated line,
\* then a last unterminated one if it is not empty; Scan returns false
\* (ErrTooLong) at the first line that does not fit the buffer, and ScanDiff
\* never looks at Err()
RECURSIVE ScannerLines(_)
ScannerLines(text) ==
    IF text = <<>> THEN <<>>
    ELSE IF TextLen(FirstLine(text)) >= MaxScanTokenSize THEN <<>>
    ELSE <<FirstLine(text)>> \o ScannerLines(AfterFirstLine(text))

\* strings.Split(text, "\n"): always at least one element.  The pieces of a
\* text are those of its first half and of its second half, the last piece of
\* the one continued by the first piece of the other
RECURSIVE SplitLines(_)
SplitLines(text) ==
    IF Len(text) <= 1
    THEN (IF text = <<NL>> THEN << <<>>, <<>> >> ELSE <<text>>)
    ELSE LET h == Len(text) \div 2
             a == SplitLines(SubSeq(text, 1, h))
             b == SplitLines(SubSeq(text, h + 1, Len(text)))
         IN  SubSeq(a, 1, Len(a) - 1) \o <<a[Len(a)] \o b[1]>> \o SubSeq(b, 2, Len(b))

----------------------------------------------------------------------------
(* internal/scanner: patterns *)

\* GetDefaultPatterns: name, severity and description of each pattern, in
\* catalog order (the regular expression is in FragMatches)
GetDefaultPatterns == <<
    [Name |-> "AWS Access Key ID",            Severity |-> "CRITICAL", Description |-> "AWS Access Key ID detected"],
    [Name |-> "AWS Secret Access Key",        Severity |-> "CRITICAL", Description |-> "AWS Secret Access Key detected"],
    [Name |-> "GitHub Personal Access Token", Severity |-> "CRITICAL", Description |-> "GitHub personal access token detected"],
    [Name |-> "GitHub OAuth Token",           Severity |-> "CRITICAL", Description |-> "GitHub OAuth access token detected"],
    [Name |-> "GitHub App Token",             Severity |-> "CRITICAL", Description |-> "GitHub App token detected"],
    [Name |-> "GitHub Refresh Token",         Severity |-> "CRITICAL", Description |-> "GitHub refresh token detected"],
    [Name |-> "OpenAI API Key",               Severity |-> "CRITICAL", Description |-> "OpenAI API key detected"],
    [Name |-> "Slack Token",                  Severity |-> "CRITICAL", Description |-> "Slack token detected"],
    [Name |-> "Slack Webhook",                Severity |-> "HIGH",     Description |-> "Slack webhook URL detected"],
    [Name |-> "Generic API Key",              Severity |-> "HIGH",     Description |-> "Generic API key pattern detected"],
    [Name |-> "Generic Secret",               Severity |-> "MEDIUM",   Description |-> "Generic secret pattern detected"],
    [Name |-> "Private Key",                  Severity |-> "CRITICAL", Description |-> "Private key detected"],
    [Name |-> "Google API Key",               Severity |-> "CRITICAL", Description |-> "Google API key detected"],
    [Name |-> "Google OAuth",                 Severity |-> "HIGH",     Description |-> "Google OAuth client ID detected"],
    [Name |-> "Stripe API Key",               Severity |-> "CRITICAL", Description |-> "Stripe API key detected"],
    [Name |-> "Twilio API Key",               Severity |-> "CRITICAL", Description |-> "Twilio API key detected"],
    [Name |-> "JWT Token",                    Severity |-> "MEDIUM",   Description |-> "JWT token detected"],
    [Name |-> "Database Connection String",   Severity |-> "CRITICAL", Description |-> "Database connection string with credentials detected"]
>>

Upper == <<"A", "B", "C", "D", "E", "F", "G", "H", "I", "J", "K", "L", "M",
           "N", "O", "P", "Q", "R", "S", "T", "U", "V", "W", "X", "Y", "Z">>

Lower == <<"a", "b", "c", "d", "e", "f", "g", "h", "i", "j", "k", "l", "m",
           "n", "o", "p", "q", "r", "s", "t", "u", "v", "w", "x", "y", "z">>

\* case folding of the flag (?i): the lower-case letter of every upper-case one
FoldTable ==
    [c \in { Upper[k] : k \in 1..26 } |-> Lower[CHOOSE k \in 1..26 : Upper[k] = c]]

Fold(c) == IF c \in DOMAIN FoldTable THEN FoldTable[c] ELSE c

\* a text or an expression with its letters folded
FoldAll(chars) == [i \in 1..Len(chars) |-> Fold(chars[i])]

\* the element [_-]? of a marker
OptionalSeparator == "[_-]?"

\* ignorePatterns of ShouldIgnoreLine, in the order it tries them: each is
\* (?i) followed by letters and, in two of them, the element [_-]?
IgnorePatterns == <<
    <<"e", "x", "a", "m", "p", "l", "e">>,
    <<"s", "a", "m", "p", "l", "e">>,
    <<"d", "u", "m", "m", "y">>,
    <<"t", "e", "s", "t">>,
    <<"f", "a", "k", "e">>,
    <<"p", "l", "a", "c", "e", "h", "o", "l", "d", "e", "r">>,
    <<"y", "o", "u", "r", "[_-]?", "k", "e", "y", "[_-]?", "h", "e", "r", "e">>,
    <<"r", "e", "p", "l", "a", "c", "e", "[_-]?", "w", "i", "t", "h">>,
    <<"T", "O", "D", "O">>,
    <<"F", "I", "X", "M", "E">> >>

\* ignorePatterns as (?i) compiles them
FoldedIgnorePatterns == [k \in 1..Len(IgnorePatterns) |-> FoldAll(IgnorePatterns[k])]

\* the folded expression, from element j on, matches the folded chars at
\* position i
RECURSIVE MatchAt(_, _, _, _)
MatchAt(chars, i, regex, j) ==
    IF j > Len(regex) THEN TRUE
    ELSE IF regex[j] = OptionalSeparator
    THEN \/ /\ i <= Len(chars)
            /\ chars[i] \in {"_", "-"}
            /\ MatchAt(chars, i + 1, regex, j + 1)
         \/ MatchAt(chars, i, regex, j + 1)
    ELSE /\ i <= Len(chars)
         /\ chars[i] = regex[j]
         /\ MatchAt(chars, i + 1, regex, j + 1)

\* regexp.MatchString(marker, line) on folded text: the marker matches
\* somewhere in the line
MarkerMatches(marker, chars) ==
    \E i \in 1..Len(chars) : MatchAt(chars, i, marker, 1)

\* ShouldIgnoreLine with the markers compiled without (?i)
ShouldIgnoreLineCaseSensitive(line) ==
    LET chars == LineChars(line)
    IN  \E k \in 1..Len(IgnorePatterns) : MarkerMatches(IgnorePatterns[k], chars)

\* ShouldIgnoreLine
ShouldIgnoreLine(line) ==
    LET chars == FoldAll(LineChars(line))
    IN  \E k \in 1..Len(IgnorePatterns) : MarkerMatches(FoldedIgnorePatterns[k], chars)

\* pattern.Pattern.MatchString(line): an unanchored search
MatchString(pattern, line) ==
    \E i \in 1..Len(line) : pattern.Name \in FragMatches(line[i])

----------------------------------------------------------------------------
(* internal/scanner: Scanner *)

\* NewScanner
NewScanner == [patterns |-> GetDefaultPatterns]

\* NewScannerWithPatterns
NewScannerWithPatterns(patterns) == [patterns |-> patterns]

\* the issue ScanDiff appends for one matching pattern
SecurityIssue(pattern, filename, lineNumber) ==
    [Type        |-> pattern.Name,
     FilePath    |-> filename,
     LineNumber  |-> lineNumber,
     Severity    |-> pattern.Severity,
     Description |-> pattern.Description,
     Pattern     |-> pattern.Name]

\* the inner loop of ScanDiff: the patterns from index k on, against one line
RECURSIVE MatchPatterns(_, _, _, _, _)
MatchPatterns(patterns, k, line, filename, lineNumber) ==
    IF k > Len(patterns) THEN <<>>
    ELSE (IF MatchString(patterns[k], line)
          THEN <<SecurityIssue(patterns[k], filename, lineNumber)>>
          ELSE <<>>)
         \o MatchPatterns(patterns, k + 1, line, filename, lineNumber)

\* the loop body looking for the "-" anywhere but at the start of the line
ScanLineRemovedNotSkipped(patterns, line, filename, lineNumber) ==
    IF Len(line) > 1 /\ FragStartsWithDash(line[2]) THEN <<>>
    ELSE IF ShouldIgnoreLine(line) THEN <<>>
    ELSE MatchPatterns(patterns, 1, line, filename, lineNumber)

\* the body of ScanDiff's loop for one line
ScanLine(patterns, line, filename, lineNumber) ==
    IF line # <<>> /\ FragStartsWithDash(line[1]) THEN <<>>
    ELSE IF ShouldIgnoreLine(line) THEN <<>>
    ELSE MatchPatterns(patterns, 1, line, filename, lineNumber)

\* the outer loop with lineNumber++ after the two skips: only the lines that
\* reach the patterns are counted
RECURSIVE ScanFromCountsScanned(_, _, _, _)
ScanFromCountsScanned(patterns, lines, n, filename) ==
    IF n > Len(lines) THEN <<>>
    ELSE ScanLine(patterns, lines[n], filename,
                  Cardinality({ m \in 1..n :
                                  /\ ~(lines[m] # <<>> /\ FragStartsWithDash(lines[m][1]))
                                  /\ ~ShouldIgnoreLine(lines[m]) }))
         \o ScanFromCountsScanned(patterns, lines, n + 1, filename)

\* the outer loop of ScanDiff: lines n.. of the scanner, lineNumber = n
RECURSIVE ScanFrom(_, _, _, _)
ScanFrom(patterns, lines, n, filename) ==
    IF n > Len(lines) THEN <<>>
    ELSE ScanLine(patterns, lines[n], filename, n)
         \o ScanFrom(patterns, lines, n + 1, filename)

\* Scanner.ScanDiff
ScanDiff(s, diff, filename) ==
    ScanFrom(s.patterns, ScannerLines(diff), 1, filename)

\* the loop of ScanFiles putting each file's issues in front of the earlier ones
RECURSIVE AllIssuesPrepended(_, _)
AllIssuesPrepended(s, files) ==
    IF files = <<>> THEN <<>>
    ELSE AllIssuesPrepended(s, Tail(files))
         \o ScanDiff(s, Head(files).Patch, Head(files).Filename)

\* the loop of ScanFiles
RECURSIVE AllIssues(_, _)
AllIssues(s, files) ==
    IF files = <<>> THEN <<>>
    ELSE ScanDiff(s, Head(files).Patch, Head(files).Filename)
         \o AllIssues(s, Tail(files))

\* ScanFiles counting the files it found a patch in
ScanFilesCountsPatchedFiles(s, files) ==
    LET allIssues == AllIssues(s, files)
    IN  [Found      |-> Len(allIssues) > 0,
         Issues     |-> allIssues,
         ScannedAt  |-> "zero",
         TotalFiles |-> Cardinality({ k \in 1..Len(files) : files[k].Patch # <<>> })]

\* Scanner.ScanFiles; ScannedAt is left at the zero time
ScanFiles(s, files) ==
    LET allIssues == AllIssues(s, files)
    IN  [Found      |-> Len(allIssues) > 0,
         Issues     |-> allIssues,
         ScannedAt  |-> "zero",
         TotalFiles |-> Len(files)]

----------------------------------------------------------------------------
(* internal/ai: Client.ReviewCodeByFile *)

\* len(patch) above which ReviewCodeByFile considers truncating
MaxPatchChars == 5000
\* lines kept of a truncated patch
MaxPatchLines == 100

\* strings.Join(lines, "\n")
RECURSIVE JoinLines(_)
JoinLines(lines) ==
    IF lines = <<>> THEN <<>>
    ELSE IF Len(lines) = 1 THEN lines[1]
    ELSE LET h == Len(lines) \div 2
         IN  JoinLines(SubSeq(lines, 1, h)) \o <<NL>>
                 \o JoinLines(SubSeq(lines, h + 1, Len(lines)))

\* "Truncate very large diffs": the patch ReviewCodeByFile submits
TruncatePatch(patch) ==
    IF TextLen(patch) > MaxPatchChars
    THEN LET lines == SplitLines(patch)
         IN  IF Len(lines) > MaxPatchLines
             THEN JoinLines(SubSeq(lines, 1, MaxPatchLines)) \o <<NL, "truncated">>
             ELSE patch
    ELSE patch

\* n lines, the first one first and then n - 1 times the line rest, joined
\* by line terminators
LinesOfPatch(n, first, rest) ==
    JoinLines([i \in 1..n |-> IF i = 1 THEN first ELSE rest])

\* patches of the files: none (a binary file), one line, 101 short lines
\* (under 5000 characters), 100 and 101 lines of which the first has 64 KiB
ReviewPatches == {
    <<>>,
    <<"+", "code">>,
    LinesOfPatch(MaxPatchLines + 1, <<"+", "code">>, <<"+", "code">>),
    LinesOfPatch(MaxPatchLines, <<"+", "long64k">>, <<"+", "code">>),
    LinesOfPatch(MaxPatchLines + 1, <<"+", "long64k">>, <<"+", "code">>) }

\* the truncation of each of these patches
TruncatedPatches == [p \in ReviewPatches |-> TruncatePatch(p)]

\* the value of patch when ReviewSingleFile is called
SubmittedPatch(patch) ==
    IF patch \in DOMAIN TruncatedPatches THEN TruncatedPatches[patch]
    ELSE TruncatePatch(patch)

\* what ai.NewClient returns: a client, or nil when genai.NewClient failed
\* (the failure is logged and NewWebhookHandler stores the nil)
NilClient == "nil"

NewClient == { "client", NilClient }

\* the loop of ReviewCodeByFile from file i on; apiOk[i] tells whether the
\* GenerateContent call made for file i succeeds.  Yields the counters and the
\* trace of what the loop did (sub-requests and pauses).  ReviewSingleFile
\* reads c.client: on a nil receiver that is a nil-pointer dereference, a
\* run-time panic, at the first file that has a patch
RECURSIVE ReviewLoop(_, _, _, _, _)
ReviewLoop(c, files, apiOk, i, acc) ==
    IF i > Len(files) THEN acc
    ELSE IF files[i].Patch = <<>> THEN ReviewLoop(c, files, apiOk, i + 1, acc)
    ELSE IF c = NilClient THEN [acc EXCEPT !.panic = TRUE]
    ELSE LET request == [kind |-> "ReviewSingleFile", Filename |-> files[i].Filename,
                         Patch |-> SubmittedPatch(files[i].Patch)]
             pause   == [kind |-> "Sleep", Filename |-> "", Patch |-> <<>>]
         IN  IF ~apiOk[i]
             THEN ReviewLoop(c, files, apiOk, i + 1,
                      [acc EXCEPT !.filesFailed = @ + 1,
                                  !.trace = Append(@, request)])
             ELSE ReviewLoop(c, files, apiOk, i + 1,
                      [acc EXCEPT !.filesReviewed = @ + 1,
                                  !.trace = IF i < Len(files)
                                            THEN @ \o <<request, pause>>
                                            ELSE Append(@, request)])

\* Client.ReviewCodeByFile on receiver c: a panic, or err when no file was
\* reviewed, or a review whose summary states filesReviewed out of
\* len(ctx.DiffFiles)
ReviewCodeByFile(c, ctx, apiOk) ==
    LET r == ReviewLoop(c, ctx.DiffFiles, apiOk, 1,
                        [filesReviewed |-> 0, filesFailed |-> 0, trace |-> <<>>,
                         panic |-> FALSE])
    IN  [panic         |-> r.panic,
         err           |-> r.filesReviewed = 0,
         filesReviewed |-> r.filesReviewed,
         filesFailed   |-> r.filesFailed,
         totalFiles    |-> Len(ctx.DiffFiles),
         trace         |-> r.trace]

----------------------------------------------------------------------------
(* internal/models and the wire format of a delivery *)

\* cfg.WebhookSecret (config.Validate refuses an empty one)
WebhookSecret == <<115, 51>>

\* another secret, for signatures made by someone who does not know ours
OtherSecret == <<120>>

\* the zero value of models.WebhookPayload
ZeroPayload == [Action |-> "", Number |-> 0, SHA |-> ""]

\* the value a body byte stands for in each field of the payload
ActionOf(b) ==
    CASE b = 111 -> "opened"
      [] b = 115 -> "synchronize"
      [] b = 99  -> "closed"
      [] OTHER   -> "edited"

ShaOf(b) == IF b = 97 THEN "sha_a" ELSE "sha_b"

\* json.Unmarshal(body, &payload).  Bodies are written in a one-byte-per-field
\* encoding: "{" action number sha "}", trailing fields optional.  A body that
\* is not a complete object is an error; a field the object lacks keeps its
\* zero value
JsonUnmarshal(body) ==
    IF Len(body) < 2 \/ body[1] # 123 \/ body[Len(body)] # 125
    THEN [err |-> TRUE, payload |-> ZeroPayload]
    ELSE [err |-> FALSE,
          payload |-> [Action |-> IF Len(body) >= 3 THEN ActionOf(body[2]) ELSE "",
                       Number |-> IF Len(body) >= 4 THEN body[3] - 48 ELSE 0,
                       SHA    |-> IF Len(body) >= 5 THEN ShaOf(body[4]) ELSE ""]]

\* models.DiffFile
DiffFile(filename, status, additions, deletions, patch) ==
    [Filename  |-> filename,
     Status    |-> status,
     Additions |-> additions,
     Deletions |-> deletions,
     Changes   |-> additions + deletions,
     Patch     |-> patch]

----------------------------------------------------------------------------
(* What the environment may send and answer *)

\* request bodies: "", "{", "{}", closed, opened (head sha_a), synchronize
\* (head sha_b) of pull request 1
Bodies == { <<>>, <<123>>, <<123, 125>>,
            <<123, 99, 49, 97, 125>>,
            <<123, 111, 49, 97, 125>>,
            <<123, 115, 49, 98, 125>> }

\* X-Hub-Signature-256 headers a sender may attach to a body: the right one,
\* none, the digest without its scheme, one made with another secret, and the
\* right one of another body
Signatures(body) ==
    { SignaturePrefix \o HexEncodeToString(HMAC(WebhookSecret, body)),
      <<>>,
      HexEncodeToString(HMAC(WebhookSecret, body)),
      SignaturePrefix \o HexEncodeToString(HMAC(OtherSecret, body)),
      SignaturePrefix \o HexEncodeToString(HMAC(WebhookSecret, body \o <<32>>)) }

\* the right header for a body
Signed(body) == SignaturePrefix \o HexEncodeToString(HMAC(WebhookSecret, body))

\* POST requests whose body is read whole: every body, header and event type
PostRequests ==
    UNION { { [method |-> "POST", readErr |-> FALSE, body |-> b, signature |-> g,
               eventType |-> t] :
                g \in Signatures(b), t \in {"pull_request", "push"} } : b \in Bodies }

\* requests HandleWebhook turns away before it looks at a header: another
\* method, or a body whose read fails (here after its first two bytes)
TransportRequests ==
    { [method |-> m, readErr |-> e, body |-> IF e THEN <<123, 111>> ELSE <<123, 111, 49, 97, 125>>,
       signature |-> g, eventType |-> "pull_request"] :
        m \in {"POST", "GET"}, e \in BOOLEAN,
        g \in {Signed(<<123, 111, 49, 97, 125>>), <<>>} }
    \ PostRequests

Requests == PostRequests \cup TransportRequests

\* file lists GitHub may return for the pull request
PRDiffs == {
    <<>>,
    << DiffFile("a.go", "modified", 1, 0, <<"+", "code">>) >>,
    << DiffFile("a.go", "modified", 2, 0, <<"+", "password", NL, "+", "code">>) >>,
    << DiffFile("a.go", "modified", 3, 1,
                <<"+", "AKIA", NL, "-", "ghp", NL, "+", "api_key", NL,
                  "+", "aws_secret">>),
       DiffFile("b.png", "added", 0, 0, <<>>) >>
}

----------------------------------------------------------------------------
(* internal/handlers: WebhookHandler.HandleWebhook *)

\* a handler that never turns a delivery away for its signature
AuthorizedAlways(req) == TRUE

\* "Verify webhook signature": h.gitClient.VerifyWebhook(body, signature)
Authorized(req) == VerifyWebhook(WebhookSecret, req.body, req.signature)

\* a filter that lets every action through that the payload names
ProcessedActionAnyNamed(action) == action # ""

\* "Only process opened or synchronize (new commits) actions"
ProcessedAction(action) == action = "opened" \/ action = "synchronize"

Response(status, text, spawn, payload) ==
    [status |-> status, text |-> text, spawn |-> spawn, payload |-> payload]

\* HandleWebhook without the check of json.Unmarshal's error: the payload of an
\* unparsable body keeps its zero value
HandleOutcomeParseErrorDropped(req) ==
    IF req.method # "POST"
    THEN Response(405, "Method not allowed", FALSE, ZeroPayload)
    ELSE IF req.readErr
    THEN Response(400, "Bad request", FALSE, ZeroPayload)
    ELSE IF ~Authorized(req)
    THEN Response(401, "Unauthorized", FALSE, ZeroPayload)
    ELSE IF req.eventType # "pull_request"
    THEN Response(200, "Event ignored", FALSE, ZeroPayload)
    ELSE LET parsed == JsonUnmarshal(req.body)
         IN  IF ~ProcessedAction(parsed.payload.Action)
             THEN Response(200, "Action ignored", FALSE, ZeroPayload)
             ELSE Response(200, "Webhook received", TRUE, parsed.payload)

\* HandleWebhook up to its last statement: the response it writes and whether
\* it starts processPullRequest (go h.processPullRequest(payload))
HandleOutcome(req) ==
    IF req.method # "POST"
    THEN Response(405, "Method not allowed", FALSE, ZeroPayload)
    ELSE IF req.readErr
    THEN Response(400, "Bad request", FALSE, ZeroPayload)
    ELSE IF ~Authorized(req)
    THEN Response(401, "Unauthorized", FALSE, ZeroPayload)
    ELSE IF req.eventType # "pull_request"
    THEN Response(200, "Event ignored", FALSE, ZeroPayload)
    ELSE LET parsed == JsonUnmarshal(req.body)
         IN  IF parsed.err
             THEN Response(400, "Bad request", FALSE, ZeroPayload)
             ELSE IF ~ProcessedAction(parsed.payload.Action)
             THEN Response(200, "Action ignored", FALSE, ZeroPayload)
             ELSE Response(200, "Webhook received", TRUE, parsed.payload)

\* HandleOutcome of every request that may arrive
Outcomes == [req \in Requests |-> HandleOutcome(req)]

----------------------------------------------------------------------------
(* internal/handlers: WebhookHandler.processPullRequest *)

NoDescription == [kind |-> "", count |-> 0]

\* one call a run made to a collaborator, with what it returned
Call(op, sha, state, description, ok) ==
    [op |-> op, sha |-> sha, state |-> state, description |-> description, ok |-> ok]

\* the run of a delivery that started none
NoRun ==
    [pc |-> "none", payload |-> ZeroPayload, diffFiles |-> <<>>,
     scanResult |-> ScanFiles(NewScanner, <<>>), aiReview |-> NoDescription,
     calls |-> <<>>]

\* the goroutine at the top of processPullRequest
NewRun(payload) == [NoRun EXCEPT !.pc = "pending", !.payload = payload]

\* scanResult.ScannedAt = time.Now()
StampScannedAt(scanResult) == [scanResult EXCEPT !.ScannedAt = "now"]

\* "Build review context"
ReviewContext(payload, diffFiles, scanResult) ==
    [PullRequest |-> payload, DiffFiles |-> diffFiles, ScanResult |-> scanResult]

\* the loop "Determine if there are CRITICAL issues"
RECURSIVE CountCritical(_)
CountCritical(issues) ==
    IF issues = <<>> THEN [hasCriticalSecrets |-> FALSE, criticalCount |-> 0]
    ELSE LET rest == CountCritical(Tail(issues))
         IN  IF Head(issues).Severity = "CRITICAL"
             THEN [hasCriticalSecrets |-> TRUE, criticalCount |-> rest.criticalCount + 1]
             ELSE rest

\* the status with the number of all issues where the number of CRITICAL ones
\* belongs
FinalStatusCountsAllIssues(scanResult) ==
    LET c == CountCritical(scanResult.Issues)
    IN  IF c.hasCriticalSecrets
        THEN [state |-> "failure",
              description |-> [kind |-> "critical", count |-> Len(scanResult.Issues)]]
        ELSE IF scanResult.Found
        THEN [state |-> "success",
              description |-> [kind |-> "warning", count |-> Len(scanResult.Issues)]]
        ELSE [state |-> "success",
              description |-> [kind |-> "all_clear", count |-> 0]]

\* "Post status based on scan results": the state and description posted
FinalStatus(scanResult) ==
    LET c == CountCritical(scanResult.Issues)
    IN  IF c.hasCriticalSecrets
        THEN [state |-> "failure",
              description |-> [kind |-> "critical", count |-> c.criticalCount]]
        ELSE IF scanResult.Found
        THEN [state |-> "success",
              description |-> [kind |-> "warning", count |-> Len(scanResult.Issues)]]
        ELSE [state |-> "success",
              description |-> [kind |-> "all_clear", count |-> 0]]

\* where the run goes after each call; err is what the call returned

\* a failed pending post that ends the run
AfterPendingStatusReturnOnError(err) == IF err THEN "done" ELSE "fetch"

\* "Post pending status": an error is logged, nothing more
AfterPendingStatus(err) == "fetch"

\* a fetch error that does not end the run (the return is missing)
AfterGetPRDiffNoReturn(err) == "status"

\* a review-complete notification sent as soon as the diff is fetched
AfterGetPRDiffNotifyFirst(err) == IF err THEN "post_error" ELSE "complete"

\* "if err != nil { ... post error status; return }"
AfterGetPRDiff(err) == IF err THEN "post_error" ELSE "status"

AfterErrorStatus(err) == "fetch_failed"

\* a final status that is posted again when the post fails
AfterFinalStatusRetry(err, scanResult) ==
    IF err THEN "status" ELSE IF scanResult.Found THEN "alert" ELSE "ai"

\* an alert sent only for blocking findings
AfterFinalStatusAlertOnCritical(err, scanResult) ==
    IF CountCritical(scanResult.Issues).hasCriticalSecrets THEN "alert" ELSE "ai"

\* "if scanResult.Found { send security alert }"
AfterFinalStatus(err, scanResult) == IF scanResult.Found THEN "alert" ELSE "ai"

\* an alert that is sent again when the send fails
AfterSecurityAlertRetry(err) == IF err THEN "alert" ELSE "ai"

\* a failed alert that ends the run
AfterSecurityAlertReturnOnError(err) == IF err THEN "done" ELSE "ai"

AfterSecurityAlert(err) == "ai"

\* a fallback notification sent whenever the AI review fails
AfterReviewAlwaysFallback(err, scanResult) ==
    IF err THEN "complete" ELSE "ai_review"

\* "if err != nil { if !scanResult.Found { SendReviewComplete } } else { SendAIReview }"
AfterReview(err, scanResult) ==
    IF err THEN (IF ~scanResult.Found THEN "complete" ELSE "done")
    ELSE "ai_review"

\* a notification whose failure the run waits on for ever
AfterNotificationWaits(err) == IF err THEN "waiting" ELSE "done"

AfterNotification(err) == "done"

----------------------------------------------------------------------------
(* internal/slack: BuildSecurityAlertBlocks *)

\* the loop "Group issues by severity" for one of the four slices: the issues
\* the switch appends to it, in the order of the range
RECURSIVE GroupBySeverity(_, _)
GroupBySeverity(issues, severity) ==
    IF issues = <<>> THEN <<>>
    ELSE (IF Head(issues).Severity = severity THEN <<Head(issues)>> ELSE <<>>)
         \o GroupBySeverity(Tail(issues), severity)

\* the severities buildIssueSection is called for, in that order
AlertSeverities == <<"CRITICAL", "HIGH", "MEDIUM", "LOW">>

\* BuildSecurityAlertBlocks: the numbers of the summary and the four slices
BuildSecurityAlertBlocks(ctx) ==
    [summary |-> [issues |-> Len(ctx.ScanResult.Issues), files |-> ctx.ScanResult.TotalFiles],
     buckets |-> [k \in 1..Len(AlertSeverities) |->
                     GroupBySeverity(ctx.ScanResult.Issues, AlertSeverities[k])]]

\* no alert built
NoAlert == [summary |-> [issues |-> 0, files |-> 0],
            buckets |-> [k \in 1..Len(AlertSeverities) |-> <<>>]]

----------------------------------------------------------------------------
(* The process: deliveries arrive, each accepted one runs in its goroutine *)

NotCalled == [called |-> FALSE, result |-> FALSE]

NoInput == [secret |-> <<>>, payload |-> <<>>, header |-> <<>>]

\* NewWebhookHandler: no delivery yet; the AI client is whatever NewClient made
Init ==
    /\ vin = NoInput
    /\ vout = NotCalled
    /\ deliveries = <<>>
    /\ runs = <<>>
    /\ aiClient \in NewClient
    /\ panicked = FALSE

Delivered == 1..Len(deliveries)

\* HandleWebhook, from its first statement to the go statement for an accepted
\* delivery and to its return for any other
HandleWebhook ==
    /\ ~panicked
    /\ Len(deliveries) < MaxDeliveries
    /\ \E req \in Requests :
         LET out == Outcomes[req]
         IN  /\ deliveries' = Append(deliveries,
                   [req    |-> req,
                    pc     |-> IF out.spawn THEN "spawned" ELSE "responded",
                    status |-> IF out.spawn THEN 0 ELSE out.status,
                    text   |-> IF out.spawn THEN "" ELSE out.text])
             /\ runs' = Append(runs, IF out.spawn THEN NewRun(out.payload) ELSE NoRun)
    /\ UNCHANGED <<vin, vout, aiClient, panicked>>

\* "Respond immediately": the last two statements of HandleWebhook
WriteAck(d) ==
    /\ ~panicked
    /\ deliveries[d].pc = "spawned"
    /\ deliveries' = [deliveries EXCEPT ![d] =
           [@ EXCEPT !.pc = "responded",
                     !.status = Outcomes[deliveries[d].req].status,
                     !.text = Outcomes[deliveries[d].req].text]]
    /\ UNCHANGED <<vin, vout, runs, aiClient, panicked>>

\* h.secretScanner.ScanFiles(diffFiles) of every file list GitHub may return
Scans == [files \in PRDiffs |-> ScanFiles(NewScanner, files)]

\* the run of delivery d makes one call and moves on
Step(d, call, next) ==
    runs' = [runs EXCEPT ![d] = [@ EXCEPT !.calls = Append(@, call), !.pc = next]]

\* "Post pending status"
StepPendingStatus(d) ==
    /\ ~panicked
    /\ runs[d].pc = "pending"
    /\ \E ok \in BOOLEAN :
         Step(d, Call("PostCommitStatus", runs[d].payload.SHA, "pending",
                      [kind |-> "pending", count |-> 0], ok),
              AfterPendingStatus(~ok))
    /\ UNCHANGED <<vin, vout, deliveries, aiClient, panicked>>

\* h.gitClient.GetPRDiff, then (on success) the scan and the review context
StepGetPRDiff(d) ==
    /\ ~panicked
    /\ runs[d].pc = "fetch"
    /\ \/ Step(d, Call("GetPRDiff", "", "", NoDescription, FALSE), AfterGetPRDiff(TRUE))
       \/ \E files \in PRDiffs :
            runs' = [runs EXCEPT ![d] =
                [@ EXCEPT !.calls = Append(@, Call("GetPRDiff", "", "", NoDescription, TRUE)),
                          !.diffFiles = files,
                          !.scanResult = StampScannedAt(Scans[files]),
                          !.pc = AfterGetPRDiff(FALSE)]]
    /\ UNCHANGED <<vin, vout, deliveries, aiClient, panicked>>

\* "Post error status", then return
StepErrorStatus(d) ==
    /\ ~panicked
    /\ runs[d].pc = "post_error"
    /\ \E ok \in BOOLEAN :
         Step(d, Call("PostCommitStatus", runs[d].payload.SHA, "error",
                      [kind |-> "fetch_error", count |-> 0], ok),
              AfterErrorStatus(~ok))
    /\ UNCHANGED <<vin, vout, deliveries, aiClient, panicked>>

\* "Post status based on scan results"
StepFinalStatus(d) ==
    /\ ~panicked
    /\ runs[d].pc = "status"
    /\ \E ok \in BOOLEAN :
         LET st == FinalStatus(runs[d].scanResult)
         IN  Step(d, Call("PostCommitStatus", runs[d].payload.SHA, st.state,
                          st.description, ok),
                  AfterFinalStatus(~ok, runs[d].scanResult))
    /\ UNCHANGED <<vin, vout, deliveries, aiClient, panicked>>

\* "Send security alert if issues found"
StepSecurityAlert(d) ==
    /\ ~panicked
    /\ runs[d].pc = "alert"
    /\ \E ok \in BOOLEAN :
         Step(d, Call("SendSecurityAlert", "", "",
                      [kind |-> "alert", count |-> Len(runs[d].scanResult.Issues)], ok),
              AfterSecurityAlert(~ok))
    /\ UNCHANGED <<vin, vout, deliveries, aiClient, panicked>>

\* "Get AI code review (per-file approach)".  A panic in this goroutine is not
\* recovered anywhere: the runtime ends the process, every goroutine with it
StepReviewCodeByFile(d) ==
    /\ ~panicked
    /\ runs[d].pc = "ai"
    /\ \E apiOk \in [1..Len(runs[d].diffFiles) -> BOOLEAN] :
         LET r == ReviewCodeByFile(aiClient,
                                   ReviewContext(runs[d].payload, runs[d].diffFiles,
                                                 runs[d].scanResult), apiOk)
         IN  /\ runs' = [runs EXCEPT ![d] =
                 [@ EXCEPT !.calls = Append(@, Call("ReviewCodeByFile", "", "",
                                                    NoDescription, ~r.panic /\ ~r.err)),
                           !.aiReview = IF r.panic \/ r.err THEN NoDescription
                                        ELSE [kind |-> "summary", count |-> r.filesReviewed],
                           !.pc = IF r.panic THEN "panic"
                                  ELSE AfterReview(r.err, runs[d].scanResult)]]
             /\ panicked' = r.panic
    /\ UNCHANGED <<vin, vout, deliveries, aiClient>>

\* h.slackClient.SendAIReview(reviewCtx, aiReview)
StepSendAIReview(d) ==
    /\ ~panicked
    /\ runs[d].pc = "ai_review"
    /\ \E ok \in BOOLEAN :
         Step(d, Call("SendAIReview", "", "", runs[d].aiReview, ok),
              AfterNotification(~ok))
    /\ UNCHANGED <<vin, vout, deliveries, aiClient, panicked>>

\* h.slackClient.SendReviewComplete(reviewCtx)
StepSendReviewComplete(d) ==
    /\ ~panicked
    /\ runs[d].pc = "complete"
    /\ \E ok \in BOOLEAN :
         Step(d, Call("SendReviewComplete", "", "", NoDescription, ok),
              AfterNotification(~ok))
    /\ UNCHANGED <<vin, vout, deliveries, aiClient, panicked>>

\* the next call of the goroutine started for delivery d
RunStep(d) ==
    \/ StepPendingStatus(d)
    \/ StepGetPRDiff(d)
    \/ StepErrorStatus(d)
    \/ StepFinalStatus(d)
    \/ StepSecurityAlert(d)
    \/ StepReviewCodeByFile(d)
    \/ StepSendAIReview(d)
    \/ StepSendReviewComplete(d)

\* one statement of one goroutine of the process, while there is a process
Next ==
    \/ HandleWebhook
    \/ \E d \in Delivered : WriteAck(d)
    \/ \E d \in Delivered : StepPendingStatus(d)
    \/ \E d \in Delivered : StepGetPRDiff(d)
    \/ \E d \in Delivered : StepErrorStatus(d)
    \/ \E d \in Delivered : StepFinalStatus(d)
    \/ \E d \in Delivered : StepSecurityAlert(d)
    \/ \E d \in Delivered : StepReviewCodeByFile(d)
    \/ \E d \in Delivered : StepSendAIReview(d)
    \/ \E d \in Delivered : StepSendReviewComplete(d)

Spec == Init /\ [][Next]_vars

\* The same process where every call returns and the Go scheduler lets every
\* goroutine that can run take its next step
SpecFair ==
    /\ Init
    /\ [][Next]_vars
    /\ \A d \in 1..MaxDeliveries : WF_vars(d \in Delivered /\ RunStep(d))
    /\ \A d \in 1..MaxDeliveries : WF_vars(d \in Delivered /\ WriteAck(d))

----------------------------------------------------------------------------
(* Several runs side by side: the goroutines of deliveries that HandleWebhook *)
(* has accepted and acknowledged                                             *)

\* goroutines of processPullRequest running at the same time
Concurrent == 2

\* the requests HandleWebhook starts a run for
AcceptedRequests == { req \in Requests : Outcomes[req].spawn }

\* the state once HandleWebhook has returned for each of them
InitConcurrent ==
    /\ vin = NoInput
    /\ vout = NotCalled
    /\ deliveries \in [1..Concurrent ->
                          { [req |-> req, pc |-> "responded",
                             status |-> Outcomes[req].status, text |-> Outcomes[req].text] :
                            req \in AcceptedRequests }]
    /\ runs = [d \in 1..Concurrent |-> NewRun(Outcomes[deliveries[d].req].payload)]
    /\ aiClient \in NewClient
    /\ panicked = FALSE

NextConcurrent ==
    \/ \E d \in Delivered : StepPendingStatus(d)
    \/ \E d \in Delivered : StepGetPRDiff(d)
    \/ \E d \in Delivered : StepErrorStatus(d)
    \/ \E d \in Delivered : StepFinalStatus(d)
    \/ \E d \in Delivered : StepSecurityAlert(d)
    \/ \E d \in Delivered : StepReviewCodeByFile(d)
    \/ \E d \in Delivered : StepSendAIReview(d)
    \/ \E d \in Delivered : StepSendReviewComplete(d)

SpecConcurrent == InitConcurrent /\ [][NextConcurrent]_vars

----------------------------------------------------------------------------
(* A pull request that is pushed to while it is being processed.  Here vin   *)
(* is the pull request as GitHub holds it: its head commit and, for each     *)
(* commit, the files ListFiles returns while that commit is the head         *)

\* the deliveries GitHub sends for pull request 1: "opened" with head sha_a,
\* "synchronize" with head sha_b, both signed with the configured secret
OpenedRequest ==
    [method |-> "POST", readErr |-> FALSE, body |-> <<123, 111, 49, 97, 125>>,
     signature |-> Signed(<<123, 111, 49, 97, 125>>), eventType |-> "pull_request"]

SynchronizeRequest ==
    [method |-> "POST", readErr |-> FALSE, body |-> <<123, 115, 49, 98, 125>>,
     signature |-> Signed(<<123, 115, 49, 98, 125>>), eventType |-> "pull_request"]

\* a delivery HandleWebhook has accepted and answered
Acknowledged(req) ==
    [req |-> req, pc |-> "responded", status |-> Outcomes[req].status,
     text |-> Outcomes[req].text]

\* the pull request was opened at sha_a and its delivery accepted
InitPush ==
    /\ vin \in { [head |-> "sha_a", diffAt |-> diffAt] :
                   diffAt \in [{"sha_a", "sha_b"} -> PRDiffs] }
    /\ vout = NotCalled
    /\ deliveries = << Acknowledged(OpenedRequest) >>
    /\ runs = << NewRun(Outcomes[OpenedRequest].payload) >>
    /\ aiClient = "client"
    /\ panicked = FALSE

\* the author pushes commit sha_b to the pull request's branch
Push ==
    /\ vin.head = "sha_a"
    /\ vin' = [vin EXCEPT !.head = "sha_b"]
    /\ UNCHANGED <<vout, deliveries, runs, aiClient, panicked>>

\* GitHub delivers the "synchronize" event of that push; HandleWebhook
\* accepts it, starts its run and answers
DeliverSynchronize ==
    /\ vin.head = "sha_b"
    /\ Len(deliveries) = 1
    /\ deliveries' = Append(deliveries, Acknowledged(SynchronizeRequest))
    /\ runs' = Append(runs, NewRun(Outcomes[SynchronizeRequest].payload))
    /\ UNCHANGED <<vin, vout, aiClient, panicked>>

\* GetPRDiff(ctx, owner, repo, prNumber): PullRequests.ListFiles is asked for
\* the files of the pull request by its number; GitHub answers with those of
\* the head it has when asked
StepGetPRDiffOfHead(d) ==
    /\ StepGetPRDiff(d)
    /\ runs'[d].calls[Len(runs'[d].calls)].ok => runs'[d].diffFiles = vin.diffAt[vin.head]

NextPush ==
    \/ Push
    \/ DeliverSynchronize
    \/ \E d \in Delivered : StepPendingStatus(d)
    \/ \E d \in Delivered : StepGetPRDiffOfHead(d)
    \/ \E d \in Delivered : StepErrorStatus(d)
    \/ \E d \in Delivered : StepFinalStatus(d)
    \/ \E d \in Delivered : StepSecurityAlert(d)
    \/ \E d \in Delivered : StepReviewCodeByFile(d)
    \/ \E d \in Delivered : StepSendAIReview(d)
    \/ \E d \in Delivered : StepSendReviewComplete(d)

SpecPush == InitPush /\ [][NextPush]_vars

----------------------------------------------------------------------------
(* The scanner on its own: any pattern set, any list of files *)

\* lines of a patch
MaxLines == 2

\* a pattern set handed to NewScannerWithPatterns: catalog expressions under
\* other severities and in another order, and one expression of its own
CustomPatterns == <<
    [Name |-> "Generic Secret",    Severity |-> "LOW",      Description |-> "custom: secret assignment"],
    [Name |-> "Custom",            Severity |-> "INFO",     Description |-> "custom: severity marker"],
    [Name |-> "AWS Access Key ID", Severity |-> "CRITICAL", Description |-> "custom: access key"] >>

\* a pattern set in which two patterns bear one name
DuplicateNamePatterns == <<
    [Name |-> "Generic Secret", Severity |-> "HIGH", Description |-> "custom: password assignment"],
    [Name |-> "Generic Secret", Severity |-> "LOW",  Description |-> "custom: secret assignment"] >>

Scanners == { NewScanner, NewScannerWithPatterns(<<>>), NewScannerWithPatterns(CustomPatterns),
              NewScannerWithPatterns(DuplicateNamePatterns) }

\* lines a patch is made of: empty, plain, added and removed secrets, a line
\* two patterns match, secrets next to an ignore marker (in lower, mixed and
\* upper case, inside a longer word), a near-marker, a context line, and a
\* line of 64 KiB
PatchLines == {
    <<>>,
    <<"+", "code">>,
    <<"+", "AKIA">>,
    <<"-", "AKIA">>,
    <<"+", "aws_secret">>,
    <<"+", "sk_test">>,
    <<"+", "Example", "ghp">>,
    <<"+", "YOUR-KEY-HERE", "AKIA">>,
    <<"+", "latest", "password">>,
    <<"+", "your__key__here", "api_key">>,
    <<" ", "severity9", "password">>,
    <<"+", "long64k">> }

\* patches of up to MaxLines lines, the last one with or without its terminator
Patches ==
    UNION { UNION { { JoinLines(lines), JoinLines(lines) \o <<NL>> } :
                    lines \in [1..k -> PatchLines] } : k \in 0..MaxLines }

\* file lists handed to ScanFiles: none, one file, and two files of which the
\* second has no patch or adds one secret
ScanFileLists ==
    { <<>> }
    \cup { << DiffFile("a.go", "modified", 1, 1, p) >> : p \in Patches }
    \cup { << DiffFile("a.go", "modified", 1, 1, p), DiffFile("b.go", "added", 1, 0, q) >> :
             p \in Patches, q \in { <<>>, <<"+", "AKIA", NL>> } }

InitScan ==
    /\ vin \in { [scanner |-> s, files |-> files] : s \in Scanners, files \in ScanFileLists }
    /\ vout = [step |-> "start", scanResult |-> ScanFiles(NewScanner, <<>>),
               reviewCtx |-> ReviewContext(ZeroPayload, <<>>, ScanFiles(NewScanner, <<>>)),
               alert |-> NoAlert]
    /\ deliveries = <<>>
    /\ runs = <<>>
    /\ aiClient = "client"
    /\ panicked = FALSE

\* scanResult := s.ScanFiles(diffFiles)
CallScanFiles ==
    /\ vout.step = "start"
    /\ vout' = [vout EXCEPT !.step = "scanned",
                            !.scanResult = ScanFiles(vin.scanner, vin.files)]
    /\ UNCHANGED <<vin, deliveries, runs, aiClient, panicked>>

\* what processPullRequest does with the result: stamp it, build the context
BuildReviewContext ==
    /\ vout.step = "scanned"
    /\ vout' = [vout EXCEPT !.step = "context",
                            !.reviewCtx = ReviewContext(ZeroPayload, vin.files,
                                                        StampScannedAt(vout.scanResult))]
    /\ UNCHANGED <<vin, deliveries, runs, aiClient, panicked>>

\* "if scanResult.Found { h.slackClient.SendSecurityAlert(reviewCtx) }": the
\* blocks SendSecurityAlert builds
SendSecurityAlert ==
    /\ vout.step = "context"
    /\ vout.reviewCtx.ScanResult.Found
    /\ vout' = [vout EXCEPT !.step = "alert",
                            !.alert = BuildSecurityAlertBlocks(vout.reviewCtx)]
    /\ UNCHANGED <<vin, deliveries, runs, aiClient, panicked>>

NextScan == CallScanFiles \/ BuildReviewContext \/ SendSecurityAlert

SpecScan == InitScan /\ [][NextScan]_vars

----------------------------------------------------------------------------
(* ReviewCodeByFile on its own: any list of files, any answers of the API *)

\* files of a pull request handed to ReviewCodeByFile
MaxFiles == 3

\* the file lists of up to MaxFiles files, named by their position
ReviewFileLists ==
    UNION { { [i \in 1..n |-> DiffFile(<<"f", i>>, "modified", 1, 0, patches[i])] :
                patches \in [1..n -> ReviewPatches] } : n \in 0..MaxFiles }

\* no call made yet
NoReview ==
    [panic |-> FALSE, err |-> FALSE, filesReviewed |-> 0, filesFailed |-> 0,
     totalFiles |-> 0, trace |-> <<>>]

InitReview ==
    /\ vin \in UNION { { [files |-> files, apiOk |-> apiOk] :
                           apiOk \in [1..Len(files) -> BOOLEAN] } :
                       files \in ReviewFileLists }
    /\ vout = [called |-> FALSE, review |-> NoReview]
    /\ deliveries = <<>>
    /\ runs = <<>>
    /\ aiClient \in NewClient
    /\ panicked = FALSE

\* aiReview, err := h.aiClient.ReviewCodeByFile(reviewCtx)
CallReviewCodeByFile ==
    /\ ~vout.called
    /\ LET r == ReviewCodeByFile(aiClient,
                                 ReviewContext(ZeroPayload, vin.files,
                                               ScanFiles(NewScanner, <<>>)),
                                 vin.apiOk)
       IN  /\ vout' = [called |-> TRUE, review |-> r]
           /\ panicked' = r.panic
    /\ UNCHANGED <<vin, deliveries, runs, aiClient>>

SpecReview == InitReview /\ [][CallReviewCodeByFile]_vars

----------------------------------------------------------------------------
(* VerifyWebhook on its own: any secret, payload and header *)

Secrets == { WebhookSecret, OtherSecret, <<>> }

Payloads == { <<>>, <<123, 125>>, <<123, 111, 49, 97, 125>>, <<123, 115, 49, 98, 125>> }

\* s with its letters in upper case (the digits of a digest are 0-9, a-f)
RECURSIVE ToUpper(_)
ToUpper(s) ==
    IF s = <<>> THEN <<>>
    ELSE (IF \E k \in 11..16 : HexDigits[k] = Head(s)
          THEN <<UpperHexDigits[CHOOSE k \in 11..16 : HexDigits[k] = Head(s)]>>
          ELSE <<Head(s)>>)
         \o ToUpper(Tail(s))

\* s with its last character replaced by another hexadecimal digit
FlipLast(s) ==
    IF s = <<>> THEN <<"0">>
    ELSE SubSeq(s, 1, Len(s) - 1) \o <<IF s[Len(s)] = "0" THEN "1" ELSE "0">>

\* headers tried against payload p under secret s: built from the right
\* digest, a digest under another key, a digest of another payload, and
\* damaged copies of the right one, each with the scheme, without it, and with
\* a scheme that is not "sha256="
Digests(s, p) ==
    LET good == HexEncodeToString(HMAC(s, p))
    IN  { good,
          <<>>,
          ToUpper(good),
          FlipLast(good),
          SubSeq(good, 1, Len(good) - 1),
          good \o <<"0">>,
          HexEncodeToString(HMAC(s \o <<1>>, p)),
          HexEncodeToString(HMAC(s, p \o <<32>>)) }

Schemes == { SignaturePrefix, <<>>, <<"s", "h", "a", "1", "=">>,
             <<"S", "H", "A", "2", "5", "6", "=">>, <<"s", "h", "a", "2", "5", "6">> }

VerifyInputs ==
    UNION { { [secret |-> s, payload |-> p, header |-> scheme \o digest] :
                scheme \in Schemes, digest \in Digests(s, p) } :
            s \in Secrets, p \in Payloads }

InitVerify ==
    /\ vin \in VerifyInputs
    /\ vout = NotCalled
    /\ deliveries = <<>>
    /\ runs = <<>>
    /\ aiClient = "client"
    /\ panicked = FALSE

\* g.VerifyWebhook(payload, signature) on a client made with vin.secret
Verify ==
    /\ ~vout.called
    /\ vout' = [called |-> TRUE,
                result |-> VerifyWebhook(vin.secret, vin.payload, vin.header)]
    /\ UNCHANGED <<vin, deliveries, runs, aiClient, panicked>>

SpecVerify == InitVerify /\ [][Verify]_vars

----------------------------------------------------------------------------
(* Properties *)

\* the header GitHub computes for payload under secret
ExpectedHeader(secret, payload) ==
    <<"s", "h", "a", "2", "5", "6", "=">> \o HexEncodeToString(HMAC(secret, payload))

\* C1: VerifyWebhook(payload, header) returns true if and only if header is
\* "sha256=" followed by the hex-encoded HMAC of the payload under the
\* configured secret; a header without the "sha256=" prefix (the empty header
\* included) or with any other digest yields false.
C1_VerifyIffExpectedHeader ==
    vout.called =>
        /\ vout.result <=> (vin.header = ExpectedHeader(vin.secret, vin.payload))
        /\ (Len(vin.header) < 7 \/ SubSeq(vin.header, 1, 7) # SignaturePrefix)
               => ~vout.result

\* a header is accepted, and it is not the only one tried for that payload
C1_Witness ==
    /\ vout.called
    /\ vout.result
    /\ vin.payload # <<>>
    /\ vin.secret = WebhookSecret

\* the request is a POST whose body was read and whose header is the one
\* GitHub computes for that body under the configured secret
PostRead(req) == req.method = "POST" /\ ~req.readErr

\* the expected header and the parse of every body that may arrive
ExpectedHeaders ==
    [b \in { r.body : r \in Requests } |-> ExpectedHeader(WebhookSecret, b)]

Parsed == [b \in { r.body : r \in Requests } |-> JsonUnmarshal(b)]

ValidSignature(req) == req.signature = ExpectedHeaders[req.body]

\* delivery d started no run and nothing was done for it
NoProcessing(d) == runs[d].pc = "none" /\ runs[d].calls = <<>>

\* C2: a POST whose signature fails verification is answered 401 and nothing
\* is processed: no run, no diff fetch, status post, notification or AI
\* request, whatever its event type and body.
C2_InvalidSignatureRejected ==
    \A d \in Delivered :
        (PostRead(deliveries[d].req) /\ ~ValidSignature(deliveries[d].req))
            => /\ deliveries[d].pc = "responded"
               /\ deliveries[d].status = 401
               /\ NoProcessing(d)

\* an opened pull request, signed with another secret, was turned away
C2_Witness ==
    \E d \in Delivered :
        /\ PostRead(deliveries[d].req)
        /\ deliveries[d].req.eventType = "pull_request"
        /\ ~Parsed[deliveries[d].req.body].err
        /\ Parsed[deliveries[d].req.body].payload.Action = "opened"
        /\ deliveries[d].req.signature = ExpectedHeader(OtherSecret, deliveries[d].req.body)
        /\ deliveries[d].status = 401

\* C3: a POST with a valid signature whose event type is not "pull_request",
\* or whose parsed action is neither "opened" nor "synchronize", is answered
\* 200 and starts no run; the diff fetch is never invoked for it.
C3_OtherEventsIgnored ==
    \A d \in Delivered :
        LET req == deliveries[d].req
            parsed == Parsed[req.body]
        IN  (/\ PostRead(req)
             /\ ValidSignature(req)
             /\ \/ req.eventType # "pull_request"
                \/ ~parsed.err /\ parsed.payload.Action \notin {"opened", "synchronize"})
                => /\ deliveries[d].pc = "responded"
                   /\ deliveries[d].status = 200
                   /\ NoProcessing(d)
                   /\ \A i \in 1..Len(runs[d].calls) : runs[d].calls[i].op # "GetPRDiff"

\* a correctly signed "closed" pull_request event was answered 200
C3_Witness ==
    \E d \in Delivered :
        /\ PostRead(deliveries[d].req)
        /\ ValidSignature(deliveries[d].req)
        /\ deliveries[d].req.eventType = "pull_request"
        /\ Parsed[deliveries[d].req.body].payload.Action = "closed"
        /\ deliveries[d].status = 200
        /\ deliveries[d].text = "Action ignored"

\* C4 as stated: a POST with a valid signature whose body cannot be parsed is
\* answered 400 and starts no run, whatever its event type.
C4_UnparsableAlways400 ==
    \A d \in Delivered :
        LET req == deliveries[d].req
        IN  (PostRead(req) /\ ValidSignature(req) /\ Parsed[req.body].err)
                => deliveries[d].status = 400 /\ NoProcessing(d)

\* C4, amended: a POST with a valid signature and event type "pull_request"
\* whose body cannot be parsed is answered 400 and starts no run; with any
\* other event type it is answered 200 (ignored, the body is not parsed) and
\* starts no run.
C4_UnparsablePullRequest400 ==
    \A d \in Delivered :
        LET req == deliveries[d].req
        IN  (PostRead(req) /\ ValidSignature(req) /\ Parsed[req.body].err)
                => /\ deliveries[d].pc = "responded"
                   /\ NoProcessing(d)
                   /\ deliveries[d].status =
                          IF req.eventType = "pull_request" THEN 400 ELSE 200

\* a correctly signed pull_request event with a truncated body was answered 400
C4_Witness ==
    \E d \in Delivered :
        /\ PostRead(deliveries[d].req)
        /\ ValidSignature(deliveries[d].req)
        /\ deliveries[d].req.eventType = "pull_request"
        /\ deliveries[d].req.body = <<123>>
        /\ deliveries[d].status = 400

\* the positions in the log of run d of its calls of op
OpCalls(d, op) == { i \in 1..Len(runs[d].calls) : runs[d].calls[i].op = op }

\* the positions of its commit-status posts with one of the states
StatusPosts(d, states) ==
    { i \in OpCalls(d, "PostCommitStatus") : runs[d].calls[i].state \in states }

FetchFailed(d) == \E i \in OpCalls(d, "GetPRDiff") : ~runs[d].calls[i].ok

FetchSucceeded(d) == \E i \in OpCalls(d, "GetPRDiff") : runs[d].calls[i].ok

AnyNotification(d) ==
    OpCalls(d, "SendSecurityAlert") \cup OpCalls(d, "SendAIReview")
        \cup OpCalls(d, "SendReviewComplete")

\* C5: in a run whose diff fetch returns an error, the status "error" is
\* posted exactly once and the run ends there: no scan, no success or failure
\* status, no notification, no AI review request, no second fetch.
C5_FetchErrorEndsRun ==
    \A d \in Delivered :
        FetchFailed(d) =>
            /\ runs[d].pc \in {"post_error", "fetch_failed"}
            /\ Cardinality(StatusPosts(d, {"error"})) =
                   IF runs[d].pc = "fetch_failed" THEN 1 ELSE 0
            /\ runs[d].pc = "fetch_failed" =>
                   runs[d].calls[Len(runs[d].calls)].state = "error"
            /\ StatusPosts(d, {"success", "failure"}) = {}
            /\ AnyNotification(d) = {}
            /\ OpCalls(d, "ReviewCodeByFile") = {}
            /\ Cardinality(OpCalls(d, "GetPRDiff")) = 1
            /\ runs[d].scanResult.ScannedAt = "zero"
            /\ runs[d].scanResult.Issues = <<>>

\* a run ended in fetch-failed, and posting the error status failed too
C5_Witness ==
    \E d \in Delivered :
        /\ runs[d].pc = "fetch_failed"
        /\ FetchFailed(d)
        /\ \E i \in StatusPosts(d, {"error"}) : ~runs[d].calls[i].ok

\* the final status the finding list calls for
StatusFor(issues) ==
    LET critical == { k \in 1..Len(issues) : issues[k].Severity = "CRITICAL" }
    IN  IF critical # {}
        THEN [state |-> "failure",
              description |-> [kind |-> "critical", count |-> Cardinality(critical)]]
        ELSE IF issues # <<>>
        THEN [state |-> "success", description |-> [kind |-> "warning", count |-> Len(issues)]]
        ELSE [state |-> "success", description |-> [kind |-> "all_clear", count |-> 0]]

\* C6: in a run whose diff fetch succeeds, the final commit status is a
\* function of the finding list alone: "failure" with the number of CRITICAL
\* findings if there is one, else "success" with a warning if the list is not
\* empty, else "success" with an all-clear description.
C6_FinalStatusFromFindings ==
    \A d \in Delivered :
        /\ \A i \in StatusPosts(d, {"success", "failure"}) :
             /\ FetchSucceeded(d)
             /\ runs[d].calls[i].state = StatusFor(runs[d].scanResult.Issues).state
             /\ runs[d].calls[i].description =
                    StatusFor(runs[d].scanResult.Issues).description
        /\ (FetchSucceeded(d) /\ runs[d].pc # "status")
               => StatusPosts(d, {"success", "failure"}) # {}

\* "failure" was posted for two CRITICAL findings among four
C6_Witness ==
    \E d \in Delivered :
        /\ Len(runs[d].scanResult.Issues) = 4
        /\ \E i \in StatusPosts(d, {"failure"}) :
             runs[d].calls[i].description = [kind |-> "critical", count |-> 2]

\* C7: a run whose diff fetch succeeds makes exactly one final (non-pending)
\* commit-status post attempt, for one of the three outcomes; never both a
\* "failure" and a "success", never the same outcome twice.
C7_OneFinalStatus ==
    \A d \in Delivered :
        FetchSucceeded(d) =>
            /\ Cardinality({ i \in OpCalls(d, "PostCommitStatus") :
                               runs[d].calls[i].state # "pending" }) =
                   IF runs[d].pc = "status" THEN 0 ELSE 1
            /\ StatusPosts(d, {"success"}) = {} \/ StatusPosts(d, {"failure"}) = {}

\* a run is done whose only final status post failed
C7_Witness ==
    \E d \in Delivered :
        /\ runs[d].pc = "done"
        /\ FetchSucceeded(d)
        /\ \E i \in StatusPosts(d, {"success", "failure"}) : ~runs[d].calls[i].ok

\* C8: in a run whose diff fetch succeeds, the AI review is requested exactly
\* once whatever the pending-status post, the final-status post and the
\* security-alert send returned: an error of one step skips no later step.
C8_ReviewRequestedOnce ==
    \A d \in Delivered :
        FetchSucceeded(d) =>
            Cardinality(OpCalls(d, "ReviewCodeByFile")) =
                IF runs[d].pc \in {"status", "alert", "ai"} THEN 0 ELSE 1

\* the pending post, the final post and the alert all failed, and the AI
\* review was requested
C8_Witness ==
    \E d \in Delivered :
        /\ \A i \in OpCalls(d, "PostCommitStatus") : ~runs[d].calls[i].ok
        /\ Cardinality(OpCalls(d, "PostCommitStatus")) = 2
        /\ \E i \in OpCalls(d, "SendSecurityAlert") : ~runs[d].calls[i].ok
        /\ OpCalls(d, "ReviewCodeByFile") # {}

\* C9: in a run whose diff fetch succeeds, a security alert is attempted if
\* and only if the scan result's Found is true, whether the final status was
\* "failure" or a "success" warning and whether its post succeeded.
C9_AlertIffFound ==
    \A d \in Delivered :
        /\ Cardinality(OpCalls(d, "SendSecurityAlert")) <= 1
        /\ OpCalls(d, "SendSecurityAlert") # {} => runs[d].scanResult.Found
        /\ (FetchSucceeded(d) /\ runs[d].pc \notin {"status", "alert"})
               => (OpCalls(d, "SendSecurityAlert") # {} <=> runs[d].scanResult.Found)

\* an alert was attempted after a "success" warning whose post failed
C9_Witness ==
    \E d \in Delivered :
        /\ OpCalls(d, "SendSecurityAlert") # {}
        /\ \E i \in StatusPosts(d, {"success"}) :
             /\ ~runs[d].calls[i].ok
             /\ runs[d].calls[i].description.kind = "warning"

\* C10: after the AI review request returned: if it succeeded, the AI-review
\* notification is sent and no review-complete notification; if it failed, a
\* review-complete notification is sent iff nothing was found.  So no run
\* that attempted a security alert sends a review-complete notification.
C10_NotificationAfterReview ==
    \A d \in Delivered :
        /\ runs[d].pc = "done" =>
             \A i \in OpCalls(d, "ReviewCodeByFile") :
                 IF runs[d].calls[i].ok
                 THEN /\ Cardinality(OpCalls(d, "SendAIReview")) = 1
                      /\ OpCalls(d, "SendReviewComplete") = {}
                 ELSE /\ OpCalls(d, "SendAIReview") = {}
                      /\ Cardinality(OpCalls(d, "SendReviewComplete")) =
                             IF runs[d].scanResult.Found THEN 0 ELSE 1
        /\ OpCalls(d, "SendSecurityAlert") = {} \/ OpCalls(d, "SendReviewComplete") = {}
        /\ \A j \in OpCalls(d, "SendAIReview") \cup OpCalls(d, "SendReviewComplete") :
               \E i \in OpCalls(d, "ReviewCodeByFile") : i < j

\* the AI review failed for a clean pull request with a file to review, and
\* the review-complete notification was sent
C10_Witness ==
    \E d \in Delivered :
        /\ runs[d].pc = "done"
        /\ runs[d].diffFiles # <<>>
        /\ \E i \in OpCalls(d, "ReviewCodeByFile") : ~runs[d].calls[i].ok
        /\ OpCalls(d, "SendReviewComplete") # {}

\* delivery d was accepted: HandleWebhook reached its go statement
Accepted(d) == runs[d].pc # "none"

\* the run of delivery d has completed
Completed(d) == runs[d].pc \in {"done", "fetch_failed"}

\* C11: for every accepted delivery, in every interleaving of the handler and
\* the run it started, the 200 acknowledgment is written before the run
\* completes (reaches done or fetch-failed).
C11_AckBeforeRunCompletes ==
    \A d \in Delivered :
        Completed(d) => deliveries[d].pc = "responded" /\ deliveries[d].status = 200

\* C12: the response to an accepted delivery does not depend on its run:
\* whatever the run's calls returned and wherever the run stands (a call that
\* has not returned included), the handler answers 200 and its next statement
\* is never held back.
C12_AckIndependentOfRun ==
    \A d \in Delivered :
        Accepted(d) =>
            IF deliveries[d].pc = "responded"
            THEN deliveries[d].status = 200 /\ deliveries[d].text = "Webhook received"
            ELSE ENABLED WriteAck(d)

\* C13: every run attempts the "pending" commit-status post exactly once, on
\* the head SHA of its payload, before the diff fetch, and attempts the diff
\* fetch whether or not the pending post succeeded.
C13_PendingOnceThenFetch ==
    \A d \in Delivered :
        Accepted(d) =>
            /\ Cardinality(StatusPosts(d, {"pending"})) =
                   IF runs[d].pc = "pending" THEN 0 ELSE 1
            /\ \A i \in StatusPosts(d, {"pending"}) :
                   /\ i = 1
                   /\ runs[d].calls[i].sha = runs[d].payload.SHA
            /\ \A j \in OpCalls(d, "GetPRDiff") : j = 2
            /\ OpCalls(d, "GetPRDiff") = {} <=> runs[d].pc \in {"pending", "fetch"}

\* the pending post failed and the diff was fetched all the same
C13_Witness ==
    \E d \in Delivered :
        /\ \E i \in StatusPosts(d, {"pending"}) : ~runs[d].calls[i].ok
        /\ FetchSucceeded(d)
        /\ runs[d].diffFiles # <<>>

\* C14: provided every call returns, every run terminates: it eventually
\* reaches fetch-failed when the diff fetch errors and done otherwise,
\* whichever of the status posts, the alert, the AI request and the
\* notifications failed.  (A call that panics has not returned.)
C14_EveryRunTerminates ==
    \A d \in 1..MaxDeliveries :
        (d \in Delivered /\ Accepted(d))
            ~> \/ panicked
               \/ d \in Delivered /\ runs[d].pc = "fetch_failed" /\ FetchFailed(d)
               \/ d \in Delivered /\ runs[d].pc = "done" /\ FetchSucceeded(d)

\* a run is done although the pending post, the final post, the alert, the AI
\* request and so every call but the fetch failed
C14_Witness ==
    \E d \in Delivered :
        /\ runs[d].pc = "done"
        /\ Len(runs[d].calls) = 5
        /\ \A i \in 1..Len(runs[d].calls) :
               runs[d].calls[i].ok <=> runs[d].calls[i].op = "GetPRDiff"

\* what the collaborators answered to run d, call by call
Responses(d) ==
    [diffFiles |-> runs[d].diffFiles,
     aiReview  |-> runs[d].aiReview,
     ok        |-> [i \in 1..Len(runs[d].calls) |-> runs[d].calls[i].ok]]

\* C15: concurrent runs share no mutable state and never cancel or supersede
\* each other: in every interleaving, a run that has not ended can take its
\* next step whatever the other runs did, and the calls it makes, with their
\* arguments, are determined by its own delivery and the answers it got.
C15_RunsIndependent ==
    /\ \A d \in Delivered :
          (Accepted(d) /\ ~Completed(d) /\ runs[d].pc # "panic") => ENABLED RunStep(d)
    /\ \A d, e \in Delivered :
          (runs[d].payload = runs[e].payload /\ Responses(d) = Responses(e))
              => runs[d].calls = runs[e].calls /\ runs[d].pc = runs[e].pc

\* the second half of C15 alone
C15_CallsDetermined ==
    \A d, e \in Delivered :
        (runs[d].payload = runs[e].payload /\ Responses(d) = Responses(e))
            => runs[d].calls = runs[e].calls /\ runs[d].pc = runs[e].pc

\* the lines of a text: what precedes each line terminator, and what follows
\* the last one if that is not empty
RECURSIVE LinesOf(_)
LinesOf(text) ==
    IF text = <<>> THEN <<>>
    ELSE <<FirstLine(text)>> \o LinesOf(AfterFirstLine(text))

\* the ignore markers a reader finds in fragment f, in whatever case
FragMarkers(f) ==
    CASE f = "sk_test"       -> {"test"}
      [] f = "dummy_key"     -> {"dummy"}
      [] f = "TODO"          -> {"TODO"}
      [] f = "Example"       -> {"example"}
      [] f = "latest"        -> {"test"}
      [] f = "Replace_With"  -> {"replace-with"}
      [] f = "YOUR-KEY-HERE" -> {"your-key-here"}
      [] OTHER               -> {}

BeginsWithDash(line) == line # <<>> /\ line[1] = "-"

HasIgnoreMarker(line) == \E i \in 1..Len(line) : FragMarkers(line[i]) # {}

\* the lines of the patch of the k-th file scanned
ScannedLines(k) == LinesOf(vin.files[k].Patch)

\* the findings reported for line n of the k-th file, in the order reported
FindingsAt(k, n) ==
    SelectSeq(vout.scanResult.Issues,
              LAMBDA x : x.FilePath = vin.files[k].Filename /\ x.LineNumber = n)

\* C16: for every input text and every pattern set, ScanDiff emits no finding
\* whose line number is that of a line beginning with "-", whatever the rest
\* of the line contains.
C16_RemovedLinesNeverReported ==
    vout.step # "start" =>
        \A k \in 1..Len(vin.files) : \A n \in 1..Len(ScannedLines(k)) :
            BeginsWithDash(ScannedLines(k)[n]) => FindingsAt(k, n) = <<>>

\* a removed access key was scanned together with an added one, which was
\* reported
C16_Witness ==
    /\ vout.step # "start"
    /\ vin.files # <<>>
    /\ ScannedLines(1) = << <<"-", "AKIA">>, <<"+", "AKIA">> >>
    /\ Len(FindingsAt(1, 2)) = 1

\* C17: for every input text and every pattern set, ScanDiff emits no finding
\* for a line that matches an ignore marker (in any case), even when secret
\* patterns match that line: the ignore check comes before every pattern.
C17_IgnoredLinesNeverReported ==
    vout.step # "start" =>
        \A k \in 1..Len(vin.files) : \A n \in 1..Len(ScannedLines(k)) :
            HasIgnoreMarker(ScannedLines(k)[n]) => FindingsAt(k, n) = <<>>

\* a token next to the marker "Example" went unreported while the secret on
\* the line before it was reported twice
C17_Witness ==
    /\ vout.step # "start"
    /\ vin.files # <<>>
    /\ ScannedLines(1) = << <<"+", "aws_secret">>, <<"+", "Example", "ghp">> >>
    /\ Len(FindingsAt(1, 1)) = 2
    /\ FindingsAt(1, 2) = <<>>

\* the findings the patterns call for on one line, in pattern order
RECURSIVE ExpectedFindings(_, _, _, _)
ExpectedFindings(patterns, line, filename, n) ==
    IF patterns = <<>> THEN <<>>
    ELSE (IF \E i \in 1..Len(line) : Head(patterns).Name \in FragMatches(line[i])
          THEN << [Type        |-> Head(patterns).Name,
                   FilePath    |-> filename,
                   LineNumber  |-> n,
                   Severity    |-> Head(patterns).Severity,
                   Description |-> Head(patterns).Description,
                   Pattern     |-> Head(patterns).Name] >>
          ELSE <<>>)
         \o ExpectedFindings(Tail(patterns), line, filename, n)

\* C18: for every line that does not begin with "-" and matches no ignore
\* marker, ScanDiff emits exactly one finding for each pattern of the active
\* set that matches the line, with that pattern's name, severity and
\* description, the file path and the line's number; none if none matches.
C18_OneFindingPerMatchingPattern ==
    vout.step # "start" =>
        \A k \in 1..Len(vin.files) : \A n \in 1..Len(ScannedLines(k)) :
            (~BeginsWithDash(ScannedLines(k)[n]) /\ ~HasIgnoreMarker(ScannedLines(k)[n]))
                => FindingsAt(k, n) =
                       ExpectedFindings(vin.scanner.patterns, ScannedLines(k)[n],
                                        vin.files[k].Filename, n)

\* no line of any file scanned is 64 KiB long
NoOverlongLine ==
    \A k \in 1..Len(vin.files) : \A n \in 1..Len(ScannedLines(k)) :
        TextLen(ScannedLines(k)[n]) < MaxScanTokenSize

\* C18 for texts all of whose lines fit the line reader
C18_ShortLines == NoOverlongLine => C18_OneFindingPerMatchingPattern

\* C19: the result of ScanFiles has Found equal to (number of findings > 0)
\* and TotalFiles equal to the number of input files, files with an empty
\* patch and files without findings included; stamping the result and putting
\* it in the review context leaves Found and the finding list as they were.
C19_FoundAndTotalFiles ==
    /\ vout.step # "start" =>
          /\ vout.scanResult.Found <=> Len(vout.scanResult.Issues) > 0
          /\ vout.scanResult.TotalFiles = Len(vin.files)
    /\ vout.step = "context" =>
          /\ vout.reviewCtx.ScanResult.Issues = vout.scanResult.Issues
          /\ vout.reviewCtx.ScanResult.Found <=> Len(vout.scanResult.Issues) > 0
          /\ vout.reviewCtx.ScanResult.TotalFiles = Len(vin.files)
          /\ vout.reviewCtx.ScanResult.ScannedAt = "now"

\* two files, the second without a patch, one finding, in the review context
C19_Witness ==
    /\ vout.step = "context"
    /\ Len(vin.files) = 2
    /\ vin.files[2].Patch = <<>>
    /\ Len(vout.reviewCtx.ScanResult.Issues) = 1
    /\ vout.reviewCtx.ScanResult.Found
    /\ vout.reviewCtx.ScanResult.TotalFiles = 2

\* the place of a call in the order of processPullRequest's statements
StepRank(call) ==
    CASE call.op = "PostCommitStatus" /\ call.state = "pending" -> 1
      [] call.op = "GetPRDiff" -> 2
      [] call.op = "PostCommitStatus" /\ call.state # "pending" -> 3
      [] call.op = "SendSecurityAlert" -> 4
      [] call.op = "ReviewCodeByFile" -> 5
      [] call.op \in {"SendAIReview", "SendReviewComplete"} -> 6

\* C21: within a run whose diff fetch succeeds the steps happen in one fixed
\* order: diff fetch, scan, final status post, security alert (if any), AI
\* review request, AI-review or review-complete notification, done.  No
\* notification is attempted before the final status post, the AI review is
\* never requested before the alert, and a step is not left out on the way.
C21_FixedStepOrder ==
    \A d \in Delivered :
        FetchSucceeded(d) =>
            LET calls == runs[d].calls
                final == { i \in OpCalls(d, "PostCommitStatus") : calls[i].state # "pending" }
            IN  /\ \A i \in 1..(Len(calls) - 1) : StepRank(calls[i]) < StepRank(calls[i + 1])
                /\ runs[d].scanResult.ScannedAt = "now"
                /\ \A j \in AnyNotification(d) : \E i \in final : i < j
                /\ \A j \in OpCalls(d, "ReviewCodeByFile") :
                       /\ \E i \in final : i < j
                       /\ runs[d].scanResult.Found
                              => \E i \in OpCalls(d, "SendSecurityAlert") : i < j
                /\ runs[d].pc = "done" =>
                       /\ OpCalls(d, "ReviewCodeByFile") # {}
                       /\ calls[Len(calls)].op \in
                              {"ReviewCodeByFile", "SendAIReview", "SendReviewComplete"}

\* a run went through all six calls: pending, fetch, failure, alert, review,
\* AI-review notification
C21_Witness ==
    \E d \in Delivered :
        /\ runs[d].pc = "done"
        /\ Len(runs[d].calls) = 6
        /\ [i \in 1..6 |-> runs[d].calls[i].op] =
               <<"PostCommitStatus", "GetPRDiff", "PostCommitStatus",
                 "SendSecurityAlert", "ReviewCodeByFile", "SendAIReview">>

\* C22: no operation is retried within a run: the diff fetch, the security
\* alert, the AI review request, the AI-review notification and the
\* review-complete notification are each invoked at most once, and
\* PostCommitStatus exactly twice (pending, then either error or one final
\* outcome), whichever calls fail.
C22_NoRetries ==
    \A d \in Delivered :
        /\ \A op \in {"GetPRDiff", "SendSecurityAlert", "ReviewCodeByFile",
                       "SendAIReview", "SendReviewComplete"} :
               Cardinality(OpCalls(d, op)) <= 1
        /\ Cardinality(OpCalls(d, "PostCommitStatus")) <= 2
        /\ (Completed(d) \/ runs[d].pc = "panic") =>
               /\ Cardinality(OpCalls(d, "PostCommitStatus")) = 2
               /\ Cardinality(StatusPosts(d, {"pending"})) = 1
               /\ Cardinality(StatusPosts(d, {"error"}))
                      + Cardinality(StatusPosts(d, {"success", "failure"})) = 1
               /\ \A i \in StatusPosts(d, {"pending"}) :
                      \A j \in StatusPosts(d, {"error", "success", "failure"}) : i < j

\* a run is done in which both status posts, the alert and the notification
\* failed, each attempted once
C22_Witness ==
    \E d \in Delivered :
        /\ runs[d].pc = "done"
        /\ Len(runs[d].calls) = 6
        /\ \A i \in 1..6 :
               runs[d].calls[i].ok <=> runs[d].calls[i].op \in {"GetPRDiff", "ReviewCodeByFile"}

\* the position in the input of the file a finding is for, and the position
\* in the active set of the pattern it is for
FileIndex(x) == CHOOSE k \in 1..Len(vin.files) : vin.files[k].Filename = x.FilePath

PatternIndex(x) ==
    CHOOSE k \in 1..Len(vin.scanner.patterns) :
        /\ vin.scanner.patterns[k].Name = x.Type
        /\ vin.scanner.patterns[k].Severity = x.Severity
        /\ vin.scanner.patterns[k].Description = x.Description

\* finding x was discovered before finding y
DiscoveredBefore(x, y) ==
    \/ FileIndex(x) < FileIndex(y)
    \/ /\ FileIndex(x) = FileIndex(y)
       /\ \/ x.LineNumber < y.LineNumber
          \/ x.LineNumber = y.LineNumber /\ PatternIndex(x) < PatternIndex(y)

\* C23: the finding list returned by ScanFiles is in discovery order: findings
\* of an earlier file precede those of a later file, within one file those of
\* a lower line precede those of a higher one, and within one line they follow
\* the order of the patterns in the active set.
C23_DiscoveryOrder ==
    vout.step # "start" =>
        LET issues == vout.scanResult.Issues
        IN  \A i, j \in 1..Len(issues) : i < j => DiscoveredBefore(issues[i], issues[j])

\* four findings: two patterns on line 1 of the first file, one on its line 2,
\* one in the second file
C23_Witness ==
    /\ vout.step # "start"
    /\ Len(vin.files) = 2
    /\ [i \in 1..Len(vout.scanResult.Issues) |->
           <<vout.scanResult.Issues[i].FilePath, vout.scanResult.Issues[i].LineNumber,
             vout.scanResult.Issues[i].Type>>] =
         << <<"a.go", 1, "AWS Secret Access Key">>, <<"a.go", 1, "Generic Secret">>,
            <<"a.go", 2, "AWS Access Key ID">>, <<"b.go", 1, "AWS Access Key ID">> >>

\* C24: every finding's line number n satisfies 1 <= n <= (number of lines of
\* the file's patch) and is the 1-based position in the patch text of the
\* line that matched: skipped removed and ignored lines are counted too, so
\* they never shift the numbers of later findings.
C24_LineNumberIsPosition ==
    vout.step # "start" =>
        \A i \in 1..Len(vout.scanResult.Issues) :
            LET x == vout.scanResult.Issues[i]
                lines == ScannedLines(FileIndex(x))
            IN  /\ 1 <= x.LineNumber
                /\ x.LineNumber <= Len(lines)
                /\ \E f \in 1..Len(lines[x.LineNumber]) :
                       x.Type \in FragMatches(lines[x.LineNumber][f])
                /\ ~BeginsWithDash(lines[x.LineNumber])
                /\ ~HasIgnoreMarker(lines[x.LineNumber])

\* the second line of a patch was reported as line 2 after a first line that
\* was skipped for its marker, and as line 2 after a removed one
C24_Witness ==
    /\ vout.step # "start"
    /\ vin.files # <<>>
    /\ ScannedLines(1) \in { << <<"+", "sk_test">>, <<"+", "AKIA">> >>,
                             << <<"-", "AKIA">>, <<"+", "aws_secret">> >> }
    /\ vout.scanResult.Issues # <<>>
    /\ vout.scanResult.Issues[1].FilePath = "a.go"
    /\ vout.scanResult.Issues[1].LineNumber = 2

\* the findings of the alert's four buckets, bucket after bucket
BucketedFindings ==
    vout.alert.buckets[1] \o vout.alert.buckets[2]
        \o vout.alert.buckets[3] \o vout.alert.buckets[4]

\* the positions in the scan result of the findings of severity sev
WithSeverity(sev) ==
    { i \in 1..Len(vout.reviewCtx.ScanResult.Issues) :
        vout.reviewCtx.ScanResult.Issues[i].Severity = sev }

\* C25: when the security alert is built, every finding of the scan result is
\* in exactly one of the buckets CRITICAL, HIGH, MEDIUM, LOW, in discovery
\* order within its bucket, and none is dropped, a finding of another
\* severity included: the bucket sizes sum to the number of findings stated
\* in the summary.
C25_EveryFindingInOneBucket ==
    vout.step = "alert" =>
        LET issues == vout.reviewCtx.ScanResult.Issues
        IN  /\ vout.alert.summary.issues = Len(issues)
            /\ Len(BucketedFindings) = vout.alert.summary.issues
            /\ \A i \in 1..Len(issues) :
                   Cardinality({ k \in 1..4 :
                       \E m \in 1..Len(vout.alert.buckets[k]) :
                           vout.alert.buckets[k][m] = issues[i] }) = 1
            /\ \A k \in 1..4 : \A m, n \in 1..Len(vout.alert.buckets[k]) :
                   m < n => \E i, j \in 1..Len(issues) :
                               /\ i < j
                               /\ issues[i] = vout.alert.buckets[k][m]
                               /\ issues[j] = vout.alert.buckets[k][n]

\* every finding has one of the four severities
KnownSeverities ==
    \A i \in 1..Len(vout.reviewCtx.ScanResult.Issues) :
        vout.reviewCtx.ScanResult.Issues[i].Severity \in {"CRITICAL", "HIGH", "MEDIUM", "LOW"}

\* C25 for findings of the four severities
C25_KnownSeverities == KnownSeverities => C25_EveryFindingInOneBucket

\* the positions in the trace of the sub-requests (ReviewSingleFile calls)
SubRequests ==
    { i \in 1..Len(vout.review.trace) : vout.review.trace[i].kind = "ReviewSingleFile" }

\* C26: within one ReviewCodeByFile call, between any two successive
\* sub-requests the run pauses for the rate-limit delay, whether or not the
\* earlier one succeeded and whether or not files without a patch lie
\* between them.
C26_PauseBetweenSubRequests ==
    vout.called =>
        \A i, j \in SubRequests :
            i < j => \E k \in (i + 1)..(j - 1) : vout.review.trace[k].kind = "Sleep"

\* C26 for sub-requests that succeeded: after each of them the run pauses
\* before the next one
C26_PauseAfterSuccess ==
    vout.called =>
        \A i, j \in SubRequests :
            (i < j /\ vout.review.trace[i + 1].kind # "Sleep")
                => \E n \in 1..Len(vin.files) :
                      /\ vin.files[n].Filename = vout.review.trace[i].Filename
                      /\ ~vin.apiOk[n]

\* the marker line put after the lines kept
TruncationMarker == <<"truncated">>

\* the lines of each patch a file may have
PatchLineTable == [p \in ReviewPatches |-> SplitLines(p)]

\* each patch cut after its first 100 lines, with the marker line, when it has
\* more than 100 lines
CappedAt100Lines ==
    [p \in ReviewPatches |->
        IF Len(PatchLineTable[p]) <= 100 THEN p
        ELSE JoinLines(SubSeq(PatchLineTable[p], 1, 100) \o <<TruncationMarker>>)]

\* the same cut made only in patches of more than 5000 characters
CappedWhenOver5000 ==
    [p \in ReviewPatches |-> IF TextLen(p) > 5000 THEN CappedAt100Lines[p] ELSE p]

\* the patch of the file that sub-request i of the trace is for
PatchOfSubRequest(i) ==
    vin.files[CHOOSE n \in 1..Len(vin.files) :
                  vin.files[n].Filename = vout.review.trace[i].Filename].Patch

\* C27: every patch ReviewCodeByFile submits holds at most the first
\* 100 lines of the file's patch plus one truncation-marker line, whatever the
\* patch's number of lines and characters.
C27_AtMost100Lines ==
    vout.called =>
        \A i \in SubRequests :
            vout.review.trace[i].Patch = CappedAt100Lines[PatchOfSubRequest(i)]

\* what holds of C27: a patch of more than 5000 characters is submitted cut to
\* its first 100 lines plus one truncation-marker line; a patch of at most
\* 5000 characters is submitted whole, whatever its number of lines.
C27_CappedWhenOver5000 ==
    vout.called =>
        \A i \in SubRequests :
            vout.review.trace[i].Patch = CappedWhenOver5000[PatchOfSubRequest(i)]

\* C28: pattern names are pairwise distinct within the pattern set a scanner
\* uses, the default catalog or a set passed to NewScannerWithPatterns, so the
\* Type of a finding identifies exactly one pattern.
C28_PatternNamesDistinct ==
    vout.step # "start" =>
        /\ \A i, j \in 1..Len(vin.scanner.patterns) :
               i # j => vin.scanner.patterns[i].Name # vin.scanner.patterns[j].Name
        /\ \A n \in 1..Len(vout.scanResult.Issues) :
               Cardinality({ k \in 1..Len(vin.scanner.patterns) :
                   vin.scanner.patterns[k].Name = vout.scanResult.Issues[n].Type }) = 1

\* C28 for the scanner NewScanner makes
C28_DefaultCatalog == vin.scanner = NewScanner => C28_PatternNamesDistinct

\* C29: the final commit status a run posts on head SHA s reflects the pull
\* request's diff as it stood at s: for two accepted deliveries of one pull
\* request with different head SHAs, under every interleaving of their runs
\* with the pushes, the status each run posts on its SHA is the outcome of
\* scanning that SHA's own changes.
C29_StatusReflectsOwnSha ==
    \A d \in Delivered :
        \A i \in StatusPosts(d, {"success", "failure"}) :
            LET own == StatusFor(Scans[vin.diffAt[runs[d].calls[i].sha]].Issues)
            IN  /\ runs[d].calls[i].sha = runs[d].payload.SHA
                /\ runs[d].calls[i].state = own.state
                /\ runs[d].calls[i].description = own.description

\* what holds of C29: the status a run posts is the outcome of scanning the
\* files it fetched, and it is posted on the SHA of the run's own delivery
C29_StatusReflectsFetchedFiles ==
    \A d \in Delivered :
        \A i \in StatusPosts(d, {"success", "failure"}) :
            LET fetched == StatusFor(Scans[runs[d].diffFiles].Issues)
            IN  /\ runs[d].calls[i].sha = runs[d].payload.SHA
                /\ runs[d].calls[i].state = fetched.state
                /\ runs[d].calls[i].description = fetched.description
                /\ runs[d].diffFiles \in { vin.diffAt[sha] : sha \in {"sha_a", "sha_b"} }

\* the positions in the log of run d of its status posts that succeeded
PostedStatuses(d) == { i \in OpCalls(d, "PostCommitStatus") : runs[d].calls[i].ok }

\* no other run has posted a status on the SHA of run d
OnlyRunOnItsSha(d) ==
    \A e \in Delivered \ {d} :
        runs[e].payload.SHA # runs[d].payload.SHA \/ OpCalls(e, "PostCommitStatus") = {}

\* C30: when a run has terminated (done or fetch-failed) and no other run
\* posts to the same SHA, the last successfully posted commit status for that
\* SHA is not "pending", whatever collaborator failures occurred.
C30_NotLeftPending ==
    \A d \in Delivered :
        (Completed(d) /\ OnlyRunOnItsSha(d)) =>
            \A i \in PostedStatuses(d) :
                (\A j \in PostedStatuses(d) : j <= i) => runs[d].calls[i].state # "pending"

\* what holds of C30: the last status post a terminated run attempted is not
\* "pending", so the commit is left pending only when that post failed
C30_LastAttemptNotPending ==
    \A d \in Delivered :
        Completed(d) =>
            /\ \A i \in OpCalls(d, "PostCommitStatus") :
                   (\A j \in OpCalls(d, "PostCommitStatus") : j <= i)
                       => runs[d].calls[i].state \in {"error", "success", "failure"}
            /\ \A i \in PostedStatuses(d) :
                   (runs[d].calls[i].state = "pending" /\ \A j \in PostedStatuses(d) : j <= i)
                       => \E j \in OpCalls(d, "PostCommitStatus") : j > i /\ ~runs[d].calls[j].ok

\* line n of the k-th file is neither removed nor ignored and a pattern of the
\* active set matches it
CallsForFinding(k, n) ==
    /\ ~BeginsWithDash(ScannedLines(k)[n])
    /\ ~HasIgnoreMarker(ScannedLines(k)[n])
    /\ \E j \in 1..Len(vin.scanner.patterns) : \E f \in 1..Len(ScannedLines(k)[n]) :
           vin.scanner.patterns[j].Name \in FragMatches(ScannedLines(k)[n][f])

\* C31: ScanDiff examines every line of its input: for every text, one with a
\* line longer than the line reader's maximum token size (64 KiB) included,
\* the number of lines processed is the number of lines of the text, and
\* every line that is neither removed nor ignored, those after the over-long
\* one included, is tested against the patterns.
C31_EveryLineExamined ==
    vout.step # "start" =>
        \A k \in 1..Len(vin.files) :
            /\ Len(ScannerLines(vin.files[k].Patch)) = Len(ScannedLines(k))
            /\ \A n \in 1..Len(ScannedLines(k)) :
                   CallsForFinding(k, n) => FindingsAt(k, n) # <<>>

\* what holds of C31: every line up to the first one of 64 KiB or more is
\* examined, and no line from that one on
C31_ExaminedUpToOverlongLine ==
    vout.step # "start" =>
        \A k \in 1..Len(vin.files) : \A n \in 1..Len(ScannedLines(k)) :
            IF \E m \in 1..n : TextLen(ScannedLines(k)[m]) >= MaxScanTokenSize
            THEN FindingsAt(k, n) = <<>>
            ELSE CallsForFinding(k, n) => FindingsAt(k, n) # <<>>

\* the files of the call that have a patch and whose GenerateContent succeeds
ReviewableFiles ==
    { n \in 1..Len(vin.files) : vin.files[n].Patch # <<>> /\ vin.apiOk[n] }

\* what a ReviewCodeByFile call that returned has returned: an error exactly
\* when no file was reviewed, and otherwise a summary of the number of
\* successful reviews out of the number of files
ReturnedAsCounted ==
    /\ vout.review.err <=> ReviewableFiles = {}
    /\ ~vout.review.err =>
           /\ vout.review.filesReviewed = Cardinality(ReviewableFiles)
           /\ vout.review.totalFiles = Len(vin.files)

\* C32: ReviewCodeByFile returns, and returns an error if and only if no file
\* was reviewed successfully (a pull request with no files or with only
\* empty-patch files included); when at least one file is reviewed it returns
\* success even if other files failed, and its summary states the number of
\* successful reviews out of the total number of files.
C32_ErrorIffNoneReviewed ==
    vout.called => (~vout.review.panic /\ ReturnedAsCounted)

\* what holds of C32: every call that returns, returns as the claim says; the
\* calls that do not return are those on the nil client that reach a file
\* with a patch
C32_WhenItReturns ==
    vout.called =>
        /\ ~vout.review.panic => ReturnedAsCounted
        /\ vout.review.panic <=>
               (aiClient = NilClient /\ \E n \in 1..Len(vin.files) : vin.files[n].Patch # <<>>)

\* C33: if construction of the AI client failed at startup (NewClient returned
\* no client), a run still terminates normally, also for a pull request with
\* a non-empty patch: the AI step is an isolated failure, no run ends in a
\* panic and the process keeps serving.
C33_NilClientIsolated ==
    aiClient = NilClient =>
        /\ ~panicked
        /\ \A d \in Delivered : runs[d].pc # "panic"

\* what holds of C33: the process ends in a panic exactly when a run of the
\* nil client has reached ReviewCodeByFile with a file that has a patch; a
\* nil client whose runs meet no patch fails the AI step with an error
C33_PanicOnlyOnPatchedFile ==
    /\ panicked <=> \E d \in Delivered : runs[d].pc = "panic"
    /\ \A d \in Delivered :
           runs[d].pc = "panic" =>
               /\ aiClient = NilClient
               /\ \E n \in 1..Len(runs[d].diffFiles) : runs[d].diffFiles[n].Patch # <<>>
    /\ \A d \in Delivered :
           (aiClient = NilClient /\ runs[d].pc = "done" /\ FetchSucceeded(d)) =>
               /\ \A n \in 1..Len(runs[d].diffFiles) : runs[d].diffFiles[n].Patch = <<>>
               /\ \A i \in OpCalls(d, "ReviewCodeByFile") : ~runs[d].calls[i].ok

====
